---- MODULE Spec2Model ----
(***************************************************************************)
(* Model of repo_analyzer.py (UniversalRepoAnalyzer): the hosting-API      *)
(* client, the heuristic and AI file selectors, the content fetcher and    *)
(* the AI client with its retry policy.                                    *)
(*                                                                         *)
(* Strings are sequences of one-character strings, so that substring       *)
(* search, lower-casing, find/rfind and slicing are computed the way the   *)
(* Python code computes them.                                              *)
(***************************************************************************)
EXTENDS Integers, Sequences, FiniteSets, TLC

----------------------------------------------------------------------------
(* Bounds of the model (not program constants).                            *)

\* longest list of file paths handed to the selector / the content fetcher
MaxPaths == 3
\* largest max_files_to_analyze that is configured
MaxFilesToAnalyze == 2
\* longest JSON array the AI answers with
MaxAnswer == 2
\* longest list of paths given to _filter_files when it is called on its own
MaxFilterList == 4
\* most lexemes of prose before, and after, the JSON value of an AI answer
MaxProse == 2

\* the file lists of the prompt construction are up to this much longer than
\* MAX_FILES_IN_PROMPT
MaxBeyondPrompt == 2

----------------------------------------------------------------------------
(* Program constants: class Constants.                                     *)

AI_MAX_RETRIES == 3
AI_RETRY_DELAY == 2
MAX_FILES_IN_PROMPT == 200
MAX_TOTAL_CONTENT_SIZE == 100000
DEFAULT_MAX_FILE_SIZE == 10000
\* _validate_config caps max_file_size at 50000
MAX_FILE_SIZE_CAP == 50000
\* for attempt in range(3) of the hosting-API operations
GITHUB_MAX_ATTEMPTS == 3
\* len("\n... (truncated)")
TRUNCATION_MARKER_LEN == 16

PRIORITY_PATTERNS ==
  << <<"p","a","c","k","a","g","e",".","j","s","o","n">>,
     <<"p","o","m",".","x","m","l">>,
     <<"b","u","i","l","d",".","g","r","a","d","l","e">>,
     <<"C","a","r","g","o",".","t","o","m","l">>,
     <<"g","o",".","m","o","d">>,
     <<"r","e","q","u","i","r","e","m","e","n","t","s",".","t","x","t">>,
     <<"s","e","t","u","p",".","p","y">>,
     <<"p","y","p","r","o","j","e","c","t",".","t","o","m","l">>,
     <<"c","o","m","p","o","s","e","r",".","j","s","o","n">>,
     <<"G","e","m","f","i","l","e">>,
     <<"m","i","x",".","e","x","s">>,
     <<"p","r","o","j","e","c","t",".","c","l","j">>,
     <<"d","e","p","s",".","e","d","n">>,
     <<"t","s","c","o","n","f","i","g",".","j","s","o","n">>,
     <<"w","e","b","p","a","c","k",".","c","o","n","f","i","g",".","j","s">>,
     <<"v","i","t","e",".","c","o","n","f","i","g",".","j","s">>,
     <<"r","o","l","l","u","p",".","c","o","n","f","i","g",".","j","s">>,
     <<"b","a","b","e","l",".","c","o","n","f","i","g",".","j","s">>,
     <<"j","e","s","t",".","c","o","n","f","i","g",".","j","s">>,
     <<"c","y","p","r","e","s","s",".","j","s","o","n">>,
     <<"D","o","c","k","e","r","f","i","l","e">>,
     <<".","g","i","t","h","u","b","/","w","o","r","k","f","l","o","w","s">>,
     <<".","g","i","t","l","a","b","-","c","i",".","y","m","l">>,
     <<"J","e","n","k","i","n","s","f","i","l","e">>,
     <<"d","o","c","k","e","r","-","c","o","m","p","o","s","e",".","y","m","l">>,
     <<"k","8","s",".","y","m","l">>,
     <<"k","u","b","e","r","n","e","t","e","s",".","y","m","l">>,
     <<"R","E","A","D","M","E",".","m","d">>,
     <<"C","O","N","T","R","I","B","U","T","I","N","G",".","m","d">>,
     <<".","e","n","v",".","e","x","a","m","p","l","e">>,
     <<"m","a","k","e","f","i","l","e">>,
     <<"M","a","k","e","f","i","l","e">> >>


----------------------------------------------------------------------------
(* Python string primitives on sequences of characters.                    *)

UpperChars == <<"A","B","C","D","E","F","G","H","I","J","K","L","M",
                "N","O","P","Q","R","S","T","U","V","W","X","Y","Z">>
LowerChars == <<"a","b","c","d","e","f","g","h","i","j","k","l","m",
                "n","o","p","q","r","s","t","u","v","w","x","y","z">>

\* str.lower() on one character
LowerChar(c) ==
  IF \E i \in 1..26 : UpperChars[i] = c
    THEN LowerChars[CHOOSE i \in 1..26 : UpperChars[i] = c]
    ELSE c

\* str.lower()
ToLower(s) == [i \in 1..Len(s) |-> LowerChar(s[i])]

\* pat in s
Contains(s, pat) ==
  \E i \in 0..(Len(s) - Len(pat)) : SubSeq(s, i + 1, i + Len(pat)) = pat

\* s.count('/')
CountSlash(s) == Cardinality({i \in 1..Len(s) : s[i] = "/"})

\* os.path.basename(s): what follows the last '/'
Basename(s) ==
  LET slashes == {i \in 1..Len(s) : s[i] = "/"}
      last == IF slashes = {} THEN 0
              ELSE CHOOSE i \in slashes : \A j \in slashes : j <= i
  IN SubSeq(s, last + 1, Len(s))

\* x in list
InList(x, list) == \E i \in 1..Len(list) : list[i] = x

\* list[:n] for n >= 0
Take(list, n) == SubSeq(list, 1, IF n < Len(list) THEN n ELSE Len(list))

\* all sequences over S of length <= n
SeqsUpTo(S, n) == UNION {[1..k -> S] : k \in 0..n}

\* sequences without a repeated element
NoDup(list) == \A i, j \in 1..Len(list) : i # j => list[i] # list[j]

----------------------------------------------------------------------------
(* The strings of the model. A path or a message is written as a string    *)
(* and Chars gives its characters.                                         *)

Chars(s) ==
  CASE s = "package.json" -> <<"p","a","c","k","a","g","e",".","j","s","o","n">>
    [] s = "src/index.js" -> <<"s","r","c","/","i","n","d","e","x",".","j","s">>
    [] s = "README.md" -> <<"R","E","A","D","M","E",".","m","d">>
    [] s = "node_modules/x.js" -> <<"n","o","d","e","_","m","o","d","u","l","e","s","/","x",".","j","s">>
    [] s = "Makefile" -> <<"M","a","k","e","f","i","l","e">>
    [] s = "app.min.js" -> <<"a","p","p",".","m","i","n",".","j","s">>
    [] s = "logo.png" -> <<"l","o","g","o",".","p","n","g">>
    [] s = "rebuild/a.js" -> <<"r","e","b","u","i","l","d","/","a",".","j","s">>
    [] s = "NOTES.MD" -> <<"N","O","T","E","S",".","M","D">>
    [] s = ".gitignore" -> <<".","g","i","t","i","g","n","o","r","e">>
    [] s = "docs/setup.py" -> <<"d","o","c","s","/","s","e","t","u","p",".","p","y">>
    [] s = "LICENSE" -> <<"L","I","C","E","N","S","E">>
    [] s = "missing.txt" -> <<"m","i","s","s","i","n","g",".","t","x","t">>
    [] s = "401 Unauthorized" -> <<"4","0","1"," ","U","n","a","u","t","h","o","r","i","z","e","d">>
    [] s = "Invalid API_KEY provided" -> <<"I","n","v","a","l","i","d"," ","A","P","I","_","K","E","Y"," ","p","r","o","v","i","d","e","d">>
    [] s = "Connection error" -> <<"C","o","n","n","e","c","t","i","o","n"," ","e","r","r","o","r">>
    [] s = "Request timed out" -> <<"R","e","q","u","e","s","t"," ","t","i","m","e","d"," ","o","u","t">>
    [] s = "AI model returned empty response" -> <<"A","I"," ","m","o","d","e","l"," ","r","e","t","u","r","n","e","d"," ","e","m","p","t","y"," ","r","e","s","p","o","n","s","e">>
    [] s = "403 Forbidden" -> <<"4","0","3"," ","F","o","r","b","i","d","d","e","n">>
    [] s = "Authentication error" -> <<"A","u","t","h","e","n","t","i","c","a","t","i","o","n"," ","e","r","r","o","r">>
    [] s = "o" -> <<"o">>
    [] s = "octo-cat" -> <<"o","c","t","o","-","c","a","t">>
    [] s = "my.github" -> <<"m","y",".","g","i","t","h","u","b">>
    [] s = "r" -> <<"r">>
    [] s = "Hello_World.2" -> <<"H","e","l","l","o","_","W","o","r","l","d",".","2">>
    [] s = "user.github.io" -> <<"u","s","e","r",".","g","i","t","h","u","b",".","i","o">>
    [] s = "https://github.com/" -> <<"h","t","t","p","s",":","/","/","g","i","t","h","u","b",".","c","o","m","/">>
    [] s = "http://github.com/" -> <<"h","t","t","p",":","/","/","g","i","t","h","u","b",".","c","o","m","/">>
    [] s = "git@github.com:" -> <<"g","i","t","@","g","i","t","h","u","b",".","c","o","m",":">>
    [] s = ".git" -> <<".","g","i","t">>
    [] s = "/" -> <<"/">>
    [] s = "" -> <<>>

----------------------------------------------------------------------------
(* Exceptions: the class of a raised error and the except clauses.         *)

\* the classes an exception of class c is an instance of
Ancestors(c) ==
  CASE c = "Timeout"            -> {"Timeout", "RequestException", "Exception"}
    [] c = "HTTPError"          -> {"HTTPError", "RequestException", "Exception"}
    [] c = "ConnectionError"    -> {"ConnectionError", "RequestException", "Exception"}
    [] c = "GitHubAPIError"     -> {"GitHubAPIError", "RepositoryAnalyzerError", "Exception"}
    [] c = "AIModelError"       -> {"AIModelError", "RepositoryAnalyzerError", "Exception"}
    [] c = "JSONDecodeError"    -> {"JSONDecodeError", "ValueError", "Exception"}
    [] c = "UnicodeDecodeError" -> {"UnicodeDecodeError", "ValueError", "Exception"}
    [] c = "APIError"           -> {"APIError", "Exception"}
    [] c = "KeyboardInterrupt"  -> {"KeyboardInterrupt", "BaseException"}
    [] OTHER                    -> {c, "Exception"}

\* the first except clause of `clauses` (in order) that catches class c; 0 if none
CaughtBy(c, clauses) ==
  LET hits == {i \in 1..Len(clauses) : clauses[i] \in Ancestors(c)}
  IN IF hits = {} THEN 0 ELSE CHOOSE i \in hits : \A j \in hits : i <= j

NoText == ""
\* no exception
NoError == [kind |-> "none", cause |-> NoText]

----------------------------------------------------------------------------
(* AI responses: a text is a sequence of lexemes.                          *)

Tok(k, s) == [k |-> k, s |-> s]
LB    == Tok("lb", NoText)
RB    == Tok("rb", NoText)
COMMA == Tok("comma", NoText)
WORD  == Tok("word", NoText)
NUM   == Tok("num", NoText)
STR(s) == Tok("str", s)
LC    == Tok("lc", NoText)
RC    == Tok("rc", NoText)
COLON == Tok("colon", NoText)

\* ai_response.find('['): 0-based index of the first '[', -1 if absent
FindOpen(text) ==
  LET hits == {i \in 1..Len(text) : text[i].k = "lb"}
  IN IF hits = {} THEN -1 ELSE (CHOOSE i \in hits : \A j \in hits : i <= j) - 1

\* ai_response.rfind(']') + 1
RFindClosePlus1(text) ==
  LET hits == {i \in 1..Len(text) : text[i].k = "rb"}
  IN IF hits = {} THEN 0 ELSE CHOOSE i \in hits : \A j \in hits : j <= i

\* ai_response.find('{'): 0-based index of the first '{', -1 if absent
FindOpenBrace(text) ==
  LET hits == {i \in 1..Len(text) : text[i].k = "lc"}
  IN IF hits = {} THEN -1 ELSE (CHOOSE i \in hits : \A j \in hits : i <= j) - 1

\* ai_response.rfind('}') + 1
RFindCloseBracePlus1(text) ==
  LET hits == {i \in 1..Len(text) : text[i].k = "rc"}
  IN IF hits = {} THEN 0 ELSE CHOOSE i \in hits : \A j \in hits : j <= i

\* ai_response[start_idx:end_idx] for start_idx >= 0, end_idx >= 0
Slice(text, start_idx, end_idx) == SubSeq(text, start_idx + 1, end_idx)

ParseFail ==
  [ok |-> FALSE, next |-> 0, elem |-> Tok("none", NoText), items |-> <<>>, keys |-> {}]

\* json decoder: one value at position i. elem is the value read (a string, a
\* number, "arr" for an array, "obj" for an object); items are the elements
\* of an array, each kept as a lexeme (an element that is itself an array or
\* an object is kept as "arr" or "obj"); keys are the member names of an object
RECURSIVE ParseValue(_, _)
RECURSIVE ParseItems(_, _, _)
RECURSIVE ParseMembers(_, _, _)
ParseValue(toks, i) ==
  IF i > Len(toks) THEN ParseFail
  ELSE IF toks[i].k \in {"str", "num"}
    THEN [ok |-> TRUE, next |-> i + 1, elem |-> toks[i], items |-> <<>>, keys |-> {}]
  ELSE IF toks[i].k = "lb"
    THEN LET r == ParseItems(toks, i + 1, TRUE)
         IN IF r.ok THEN [r EXCEPT !.elem = Tok("arr", NoText)] ELSE ParseFail
  ELSE IF toks[i].k = "lc"
    THEN LET r == ParseMembers(toks, i + 1, TRUE)
         IN IF r.ok THEN [r EXCEPT !.elem = Tok("obj", NoText)] ELSE ParseFail
  ELSE ParseFail

\* the elements of an array after its '[': first is TRUE right after the '['
ParseItems(toks, i, first) ==
  IF i > Len(toks) THEN ParseFail
  ELSE IF first /\ toks[i].k = "rb"
    THEN [ok |-> TRUE, next |-> i + 1, elem |-> Tok("arr", NoText),
          items |-> <<>>, keys |-> {}]
  ELSE LET v == ParseValue(toks, i)
       IN IF ~v.ok \/ v.next > Len(toks) THEN ParseFail
          ELSE IF toks[v.next].k = "rb"
            THEN [v EXCEPT !.next = v.next + 1, !.items = <<v.elem>>, !.keys = {}]
          ELSE IF toks[v.next].k = "comma"
            THEN LET r == ParseItems(toks, v.next + 1, FALSE)
                 IN IF r.ok THEN [r EXCEPT !.items = <<v.elem>> \o r.items]
                    ELSE ParseFail
          ELSE ParseFail

\* the members of an object after its '{': first is TRUE right after the '{'
ParseMembers(toks, i, first) ==
  IF i > Len(toks) THEN ParseFail
  ELSE IF first /\ toks[i].k = "rc"
    THEN [ok |-> TRUE, next |-> i + 1, elem |-> Tok("obj", NoText),
          items |-> <<>>, keys |-> {}]
  ELSE IF toks[i].k # "str" \/ i + 1 > Len(toks) \/ toks[i + 1].k # "colon"
    THEN ParseFail
  ELSE LET v == ParseValue(toks, i + 2)
       IN IF ~v.ok \/ v.next > Len(toks) THEN ParseFail
          ELSE IF toks[v.next].k = "rc"
            THEN [v EXCEPT !.next = v.next + 1, !.items = <<>>, !.keys = {toks[i].s}]
          ELSE IF toks[v.next].k = "comma"
            THEN LET r == ParseMembers(toks, v.next + 1, FALSE)
                 IN IF r.ok THEN [r EXCEPT !.keys = {toks[i].s} \cup r.keys]
                    ELSE ParseFail
          ELSE ParseFail

\* json.loads(json_str): ok is FALSE for JSONDecodeError; value is the kind of
\* the decoded value, items its elements when it is an array and keys its
\* member names when it is an object
JsonLoads(toks) ==
  LET v == ParseValue(toks, 1)
  IN IF v.ok /\ v.next = Len(toks) + 1
       THEN [ok |-> TRUE, value |-> v.elem.k, items |-> v.items, keys |-> v.keys]
       ELSE [ok |-> FALSE, value |-> "none", items |-> <<>>, keys |-> {}]

----------------------------------------------------------------------------
(* Paths.                                                                  *)

\* the paths of a file tree
Paths == {"package.json", "src/index.js", "README.md"}
\* a path no file tree has
MissingPath == "missing.txt"
AllPaths == Paths \cup {MissingPath}
\* a path of a file tree that lies in an excluded directory
ExcludedPath == "node_modules/x.js"
\* the paths a file tree can list
TreePaths == Paths \cup {ExcludedPath}

----------------------------------------------------------------------------
(* _filter_files                                                           *)

\* DEFAULT_CONFIG['excluded_directories']
EXCLUDED_DIRECTORIES ==
  { <<"n","o","d","e","_","m","o","d","u","l","e","s">>, <<".","g","i","t">>,
     <<"_","_","p","y","c","a","c","h","e","_","_">>, <<"d","i","s","t">>,
     <<"b","u","i","l","d">>, <<"t","a","r","g","e","t">>,
     <<".","i","d","e","a">>, <<".","v","s","c","o","d","e">>,
     <<"c","o","v","e","r","a","g","e">>,
     <<".","n","y","c","_","o","u","t","p","u","t">> }

\* DEFAULT_CONFIG['excluded_file_extensions']
EXCLUDED_FILE_EXTENSIONS ==
  { <<".","l","o","g">>, <<".","t","m","p">>, <<".","c","a","c","h","e">>,
     <<".","l","o","c","k">>, <<".","m","a","p">>,
     <<".","m","i","n",".","j","s">>, <<".","m","i","n",".","c","s","s">> }

SUPPORTED_EXTENSIONS ==
  { <<".","j","s">>, <<".","t","s">>, <<".","j","s","x">>,
     <<".","t","s","x">>, <<".","p","y">>, <<".","j","a","v","a">>,
     <<".","g","o">>, <<".","r","s">>, <<".","r","b">>, <<".","p","h","p">>,
     <<".","c","p","p">>, <<".","c">>, <<".","c","s">>,
     <<".","s","w","i","f","t">>, <<".","k","t">>,
     <<".","s","c","a","l","a">>, <<".","c","l","j">>,
     <<".","j","s","o","n">>, <<".","y","a","m","l">>, <<".","y","m","l">>,
     <<".","t","o","m","l">>, <<".","x","m","l">>, <<".","m","d">>,
     <<".","t","x","t">>, <<".","s","h">>,
     <<".","d","o","c","k","e","r","f","i","l","e">>,
     <<".","m","a","k","e","f","i","l","e">> }

\* s.split('/')
RECURSIVE Split(_)
Split(s) ==
  LET slashes == {i \in 1..Len(s) : s[i] = "/"}
      first == CHOOSE i \in slashes : \A j \in slashes : i <= j
  IN IF slashes = {} THEN <<s>>
     ELSE <<SubSeq(s, 1, first - 1)>> \o Split(SubSeq(s, first + 1, Len(s)))

\* s.endswith(suffix)
EndsWith(s, suffix) ==
  /\ Len(suffix) <= Len(s)
  /\ SubSeq(s, Len(s) - Len(suffix) + 1, Len(s)) = suffix

\* Path(s).suffix: the last component from its last '.', unless that dot is
\* its first or its last character
PathSuffix(s) ==
  LET name == Basename(s)
      dots == {i \in 1..Len(name) : name[i] = "."}
      last == CHOOSE i \in dots : \A j \in dots : j <= i
  IN IF dots = {} THEN <<>>
     ELSE IF 1 < last /\ last < Len(name) THEN SubSeq(name, last, Len(name))
     ELSE <<>>

\* the first test with `excluded_dir in file_path`: a substring of the path
DirExcluded_Substring(chars, excluded_dirs) ==
  \E excluded_dir \in excluded_dirs : Contains(chars, excluded_dir)

\* any(excluded_dir in file_path.split('/') for excluded_dir in excluded_dirs)
DirExcluded(chars, excluded_dirs) ==
  \E excluded_dir \in excluded_dirs : InList(excluded_dir, Split(chars))

\* any(file_path.endswith(ext) for ext in excluded_extensions)
ExtExcluded(chars, excluded_extensions) ==
  \E ext \in excluded_extensions : EndsWith(chars, ext)

\* file_ext and file_ext not in Constants.SUPPORTED_EXTENSIONS
Unsupported(chars) ==
  LET file_ext == ToLower(PathSuffix(chars))
  IN file_ext # <<>> /\ file_ext \notin SUPPORTED_EXTENSIONS

\* one test of the loop body: TRUE when it ends the iteration with `continue`
FilterTest(test, chars, cfg) ==
  CASE test = "directory" -> DirExcluded(chars, cfg.excluded_directories)
    [] test = "extension" -> ExtExcluded(chars, cfg.excluded_file_extensions)
    [] test = "supported" -> Unsupported(chars)

\* the order in which the loop body makes its tests
FilterTestOrder == <<"directory", "extension", "supported">>

\* the loop body with its tests made in the given order: TRUE when no test
\* ends the iteration, so that file_path is appended
KeepsInOrder(file_path, cfg, order) ==
  \A k \in 1..Len(order) : ~FilterTest(order[k], Chars(file_path), cfg)

\* DEFAULT_CONFIG, the two keys _filter_files reads
DefaultFilterConfig ==
  [excluded_directories |-> EXCLUDED_DIRECTORIES,
   excluded_file_extensions |-> EXCLUDED_FILE_EXTENSIONS]

\* the loop body under the default configuration
FilterKeeps(file_path) == KeepsInOrder(file_path, DefaultFilterConfig, FilterTestOrder)

\* the test of each path of the model, computed once
FilterKeepsOf == [p \in TreePaths |-> FilterKeeps(p)]

\* _filter_files(all_files)
FilterFiles(files) ==
  LET Keep(file_path) == FilterKeepsOf[file_path]
  IN SelectSeq(files, Keep)

\* the paths of the lists: the three of the file tree and the one in
\* node_modules, a name without extension, a dot file, a name ending in an
\* excluded extension, one with an unsupported extension, one with an
\* upper-case extension, and one whose directory has an excluded name inside
FilterPaths ==
  TreePaths \cup {"Makefile", ".gitignore", "app.min.js", "logo.png", "NOTES.MD",
                  "rebuild/a.js"}

\* configurations: the defaults, nothing excluded, and lists a configuration
\* file sets
FilterConfigs ==
  { DefaultFilterConfig,
    [excluded_directories |-> {}, excluded_file_extensions |-> {}],
    [excluded_directories |-> {<<"s","r","c">>},
     excluded_file_extensions |-> {<<".","m","d">>}],
    [excluded_directories |-> {<<"n","o","d","e","_","m","o","d","u","l","e","s">>},
     excluded_file_extensions |-> EXCLUDED_FILE_EXTENSIONS] }

\* the orders in which the three tests can be made
FilterTestOrders ==
  {o \in [1..3 -> {"directory", "extension", "supported"}] :
     \A i, j \in 1..3 : i # j => o[i] # o[j]}

\* the loop body for each configuration, order of tests and path of the
\* model, computed once
KeepsInOrderOf ==
  [cfg \in FilterConfigs |->
     [order \in FilterTestOrders |->
        [p \in FilterPaths |-> KeepsInOrder(p, cfg, order)]]]

\* the loop written as `for f in all_files: if <a test holds>: all_files.remove(f)`:
\* after a removal the iteration skips the element that moved into its place
RECURSIVE RemoveLoop(_, _, _)
RemoveLoop(list, i, cfg) ==
  IF i > Len(list) THEN list
  ELSE IF KeepsInOrderOf[cfg][FilterTestOrder][list[i]]
    THEN RemoveLoop(list, i + 1, cfg)
  ELSE LET first == CHOOSE j \in 1..Len(list) :
                      list[j] = list[i] /\ \A k \in 1..(j - 1) : list[k] # list[i]
       IN RemoveLoop(SubSeq(list, 1, first - 1) \o SubSeq(list, first + 1, Len(list)),
                     i + 1, cfg)

FilterFilesWith_RemoveWhileIterating(all_files, cfg) == RemoveLoop(all_files, 1, cfg)

\* _filter_files(all_files) under the configuration cfg: each path no test
\* excludes is appended to `filtered`, in the order of all_files
FilterFilesWith(all_files, cfg) ==
  LET Keep(file_path) == KeepsInOrderOf[cfg][FilterTestOrder][file_path]
  IN SelectSeq(all_files, Keep)


----------------------------------------------------------------------------
(* _heuristic_file_selection                                               *)

S_config == <<"c","o","n","f","i","g">>
S_setup  == <<"s","e","t","u","p">>
\* ['readme.md', 'license', 'contributing.md']
DocFileNames == { <<"r","e","a","d","m","e",".","m","d">>,
                  <<"l","i","c","e","n","s","e">>,
                  <<"c","o","n","t","r","i","b","u","t","i","n","g",".","m","d">> }

\* the paths of the lists the heuristic is called with on its own: every
\* bonus and every combination of bonuses occurs, several paths have the
\* same score, some have none, and one matches two patterns
HeuristicPaths ==
  {"package.json", "README.md", "src/index.js", "Makefile", ".gitignore",
   "logo.png", "docs/setup.py", "LICENSE"}

\* the loop over the patterns without its `break`: every match adds
PatternScore_Cumulative(file_path) ==
  LET n == Len(PRIORITY_PATTERNS)
      lowered == ToLower(Chars(file_path))
      hits == {i \in 1..n : Contains(lowered, ToLower(PRIORITY_PATTERNS[i]))}
      Sum[S \in SUBSET (1..n)] ==
        IF S = {} THEN 0
        ELSE LET i == CHOOSE x \in S : TRUE
             IN (n - (i - 1)) * 10 + Sum[S \ {i}]
  IN Sum[hits]

\* the priority-pattern part of the score: the first matching pattern only
PatternScore(file_path) ==
  LET n == Len(PRIORITY_PATTERNS)
      lowered == ToLower(Chars(file_path))
      hits == {i \in 1..n : Contains(lowered, ToLower(PRIORITY_PATTERNS[i]))}
      first == CHOOSE i \in hits : \A j \in hits : i <= j
  IN IF hits = {} THEN 0 ELSE (n - (first - 1)) * 10

\* the score without the bonus of the root-level paths
Score_NoRootBonus(file_path) ==
  LET file_name == ToLower(Basename(Chars(file_path)))
  IN PatternScore(file_path)
     + (IF Contains(file_name, S_config) \/ Contains(file_name, S_setup)
          THEN 3 ELSE 0)
     + (IF file_name \in DocFileNames THEN 2 ELSE 0)

\* the score of one path
Score(file_path) ==
  LET file_name == ToLower(Basename(Chars(file_path)))
  IN PatternScore(file_path)
     + (IF CountSlash(Chars(file_path)) = 0 THEN 5 ELSE 0)
     + (IF Contains(file_name, S_config) \/ Contains(file_name, S_setup)
          THEN 3 ELSE 0)
     + (IF file_name \in DocFileNames THEN 2 ELSE 0)

\* the scores of the paths of the model, computed once
ScoreOf == [p \in AllPaths \cup HeuristicPaths |-> Score(p)]

\* an unstable sort: x goes before the elements whose score equals its own
InsertByScore_BeforeEquals(sorted, x) ==
  LET before == {i \in 1..Len(sorted) : ScoreOf[sorted[i]] > ScoreOf[x]}
      k == Cardinality(before)
  IN SubSeq(sorted, 1, k) \o <<x>> \o SubSeq(sorted, k + 1, Len(sorted))

\* x placed into a list already sorted by descending score, after every
\* element whose score is >= its own
InsertByScore(sorted, x) ==
  LET before == {i \in 1..Len(sorted) : ScoreOf[sorted[i]] >= ScoreOf[x]}
      k == Cardinality(before)
  IN SubSeq(sorted, 1, k) \o <<x>> \o SubSeq(sorted, k + 1, Len(sorted))

\* scored_files.sort(key=score, reverse=True): stable, descending
RECURSIVE SortByScore(_)
SortByScore(list) ==
  IF list = <<>> THEN <<>>
  ELSE InsertByScore(SortByScore(SubSeq(list, 1, Len(list) - 1)), list[Len(list)])

HasScore(file_path) == ScoreOf[file_path] > 0

\* scored_files after the sort: the (file_path, score) pairs
ScoredFiles(files) ==
  LET sorted == SortByScore(SelectSeq(files, HasScore))
  IN [i \in 1..Len(sorted) |-> [file_path |-> sorted[i], score |-> ScoreOf[sorted[i]]]]

\* _heuristic_file_selection without the [:max_files_to_analyze] slice
HeuristicFileSelection_NoLimit(files, max_files) ==
  SortByScore(SelectSeq(files, HasScore))

\* the list _heuristic_file_selection returns
HeuristicFileSelection(files, max_files) ==
  Take(SortByScore(SelectSeq(files, HasScore)), max_files)

----------------------------------------------------------------------------
(* _ai_select_files_to_analyze: validation of the AI's answer              *)

\* the prompt without the limit: every path of the list is shown
PromptFiles_All(files) == files

\* files_sample = all_files[:Constants.MAX_FILES_IN_PROMPT]
PromptFiles(files) == Take(files, MAX_FILES_IN_PROMPT)

\* the validation without the membership test `f in all_files`
ValidSelected_NoMembership(items, files) ==
  LET paths == [i \in 1..Len(items) |-> items[i]]
      Keep(e) == e.k = "str"
      kept == SelectSeq(paths, Keep)
  IN [i \in 1..Len(kept) |-> kept[i].s]

\* [f for f in selected_files if isinstance(f, str) and f in all_files]
ValidSelected(items, files) ==
  LET paths == [i \in 1..Len(items) |-> items[i]]
      Keep(e) == e.k = "str" /\ InList(e.s, files)
      kept == SelectSeq(paths, Keep)
  IN [i \in 1..Len(kept) |-> kept[i].s]

\* the selector without its `except Exception` clause
SelectorExceptClauses_JsonOnly == <<"JSONDecodeError">>

\* except json.JSONDecodeError / except Exception
SelectorExceptClauses == <<"JSONDecodeError", "Exception">>

\* the try block without the `return` of its AI branch: it always falls
\* through to the heuristic
SelectorTry_NoReturn(is_str, text, files, max_files) ==
  LET parsed == JsonLoads(Slice(text, FindOpen(text), RFindClosePlus1(text)))
  IN IF is_str /\ FindOpen(text) # -1 /\ RFindClosePlus1(text) > 0 /\ ~parsed.ok
       THEN [branch |-> "raise", files |-> <<>>, exc |-> "JSONDecodeError"]
       ELSE [branch |-> "fallback", files |-> <<>>, exc |-> "none"]

\* what the try block of the selector does with the value _call_ai_model
\* returned: branch "ai" returns `files`, "fallback" falls through to the
\* heuristic, "raise" leaves the try block with exception class exc
SelectorTry(is_str, text, files, max_files) ==
  LET start_idx == FindOpen(text)
      end_idx   == RFindClosePlus1(text)
      parsed    == JsonLoads(Slice(text, start_idx, end_idx))
      valid     == ValidSelected(parsed.items, files)
      fall      == [branch |-> "fallback", files |-> <<>>, exc |-> "none"]
  IN IF ~is_str THEN fall
     ELSE IF ~(start_idx # -1 /\ end_idx > 0) THEN fall
     ELSE IF ~parsed.ok
       THEN [branch |-> "raise", files |-> <<>>, exc |-> "JSONDecodeError"]
     ELSE IF valid # <<>>
       THEN [branch |-> "ai", files |-> Take(valid, max_files), exc |-> "none"]
     ELSE fall

----------------------------------------------------------------------------
(* _ai_analyze_repo_structure and _heuristic_structure_analysis            *)

\* the top-level keys of the dict _heuristic_structure_analysis returns
StructureSections ==
  {"directories", "languages", "project_type", "features", "monorepo_analysis",
   "build_system", "deployment", "quality_assurance", "insights"}

\* a structure analysis: its top-level keys, insights.fallback_analysis, and
\* features.has_documentation where it is present and true
NoStructure == [keys |-> {}, fallback_analysis |-> FALSE, has_documentation |-> FALSE]

\* 'readme' in f.lower() or 'doc' in f.lower()
DocPath(f) ==
  \/ Contains(ToLower(Chars(f)), <<"r","e","a","d","m","e">>)
  \/ Contains(ToLower(Chars(f)), <<"d","o","c">>)

DocPathOf == [f \in TreePaths |-> DocPath(f)]

\* _heuristic_structure_analysis: the dict literal of its return statement
HeuristicStructureAnalysis(files) ==
  [keys |-> StructureSections, fallback_analysis |-> TRUE,
   has_documentation |-> \E i \in 1..Len(files) : DocPathOf[files[i]]]

\* the analyzer without its `except Exception` clause
StructureExceptClauses_JsonOnly == <<"JSONDecodeError">>

\* except json.JSONDecodeError / except Exception
StructureExceptClauses == <<"JSONDecodeError", "Exception">>

\* what the try block of the structure analyzer does with the value
\* _call_ai_model returned: branch "ai" returns `value` (the decoded object as
\* it is), "fallback" falls through to the heuristic, "raise" leaves the try
\* block with exception class exc
StructureTry(is_str, text) ==
  LET start_idx == FindOpenBrace(text)
      end_idx   == RFindCloseBracePlus1(text)
      parsed    == JsonLoads(Slice(text, start_idx, end_idx))
      fall      == [branch |-> "fallback", value |-> NoStructure, exc |-> "none"]
  IN IF ~is_str THEN fall
     ELSE IF ~(start_idx # -1 /\ end_idx > 0) THEN fall
     ELSE IF ~parsed.ok
       THEN [branch |-> "raise", value |-> NoStructure, exc |-> "JSONDecodeError"]
     ELSE [branch |-> "ai",
           value |-> [NoStructure EXCEPT !.keys = parsed.keys],
           exc |-> "none"]

----------------------------------------------------------------------------
(* The dicts get_full_repository_context and analyze_with_ai return: the   *)
(* keys present and the values the model follows.                          *)

\* the text of an error: the f-string prefix, and the message of the
\* exception it was built from (what was raised, and the text it wraps)
ErrText(prefix, exc) == [prefix |-> prefix, kind |-> exc.kind, cause |-> exc.cause]
NoErrText  == [prefix |-> "", kind |-> "none", cause |-> NoText]
NoPreview  == [text |-> <<>>, ellipsis |-> FALSE]
NoMetadata == [files_analyzed |-> 0, total_files |-> 0]

EmptyDict ==
  [keys |-> {}, error |-> NoErrText, error_type |-> "",
   structure |-> NoStructure, total_files |-> 0, analyzed_files |-> 0,
   preview |-> NoPreview, metadata |-> NoMetadata]

\* the keys of the context dict
ContextKeys ==
  {"owner", "repo", "metadata", "all_files", "structure", "file_contents",
   "total_files", "analyzed_files", "analysis_timestamp", "analyzer_version"}

\* the context get_full_repository_context compiles
ContextDict(files, contents, structure_analysis) ==
  [EmptyDict EXCEPT !.keys = ContextKeys,
                    !.structure = structure_analysis,
                    !.total_files = Len(files),
                    !.analyzed_files = Cardinality(DOMAIN contents)]

\* the dict of its `except Exception as e` clause
ContextError(class, exc) ==
  [EmptyDict EXCEPT !.keys = {"error", "error_type", "repo_url", "timestamp"},
                    !.error = ErrText("Error fetching repository context", exc),
                    !.error_type = class]

\* raise ValueError(f"Invalid GitHub URL format: {repo_url}. ...")
E_invalid_url == [kind |-> "invalid_github_url", cause |-> NoText]
\* raise GitHubAPIError("Failed to fetch repository metadata")
E_no_metadata == [kind |-> "failed_to_fetch_repository_metadata", cause |-> NoText]
\* raise GitHubAPIError("Failed to fetch repository file tree")
E_no_file_tree == [kind |-> "failed_to_fetch_repository_file_tree", cause |-> NoText]

----------------------------------------------------------------------------
(* analyze_with_ai                                                         *)

\* no key is required
RequiredKeys_None == {}

\* required_keys
RequiredKeys == {"owner", "repo", "metadata", "file_contents", "structure"}

\* ai_response[:200]
RAW_PREVIEW_LEN == 200

\* ai_response[:200] + '...' if len(ai_response) > 200 else ai_response
RawResponsePreview(text) ==
  IF Len(text) > RAW_PREVIEW_LEN
    THEN [text |-> Take(text, RAW_PREVIEW_LEN), ellipsis |-> TRUE]
    ELSE [text |-> text, ellipsis |-> FALSE]

\* raise ValueError("No valid JSON found in AI response")
E_no_valid_json == [kind |-> "no_valid_json_found", cause |-> NoText]
\* the JSONDecodeError of json.loads
E_json_decode == [kind |-> "json_decode_error", cause |-> NoText]
\* the unexpected-format error has no exception behind it
E_response_type == [kind |-> "response_type", cause |-> NoText]
\* f"Missing required repository data keys: {missing_keys}"
E_missing_keys == [kind |-> "missing_keys", cause |-> NoText]

\* the inner try block on a text response: the dict it returns, or the
\* exception it ends with
AnalysisExtract(text, repo_data) ==
  LET start_idx == FindOpenBrace(text)
      end_idx   == RFindCloseBracePlus1(text)
      parsed    == JsonLoads(Slice(text, start_idx, end_idx))
  IN IF start_idx # -1 /\ end_idx > 0
       THEN IF parsed.ok
              THEN [exc |-> "none", msg |-> NoError,
                    dict |-> [EmptyDict EXCEPT
                                !.keys = parsed.keys \cup {"analysis_metadata"},
                                !.metadata =
                                  [files_analyzed |-> repo_data.analyzed_files,
                                   total_files |-> repo_data.total_files]]]
              ELSE [exc |-> "JSONDecodeError", msg |-> E_json_decode, dict |-> EmptyDict]
       ELSE [exc |-> "ValueError", msg |-> E_no_valid_json, dict |-> EmptyDict]

\* except json.JSONDecodeError as e
AnalysisInnerClauses == <<"JSONDecodeError">>

\* the outer try without its except clause
AnalysisOuterClauses_None == <<>>

\* except Exception as e
AnalysisOuterClauses == <<"Exception">>

\* the inner except clause without the preview of the response
InvalidJsonError_NoPreview(text) ==
  [EmptyDict EXCEPT !.keys = {"error", "error_details"},
                    !.error = ErrText("AI returned invalid JSON format", E_json_decode)]

\* the dict of the inner except clause
InvalidJsonError(text) ==
  [EmptyDict EXCEPT !.keys = {"error", "error_details", "raw_response_preview"},
                    !.error = ErrText("AI returned invalid JSON format", E_json_decode),
                    !.preview = RawResponsePreview(text)]

\* the dict returned for a response that is not a str
ResponseTypeError ==
  [EmptyDict EXCEPT !.keys = {"error", "response_type"},
                    !.error = ErrText("Unexpected AI response format", E_response_type)]

\* the dict returned when required keys are missing
MissingKeysError ==
  [EmptyDict EXCEPT !.keys = {"error"},
                    !.error = ErrText("Missing required repository data keys",
                                      E_missing_keys)]

\* the dict of the outer except clause
AnalysisFailed(class, exc) ==
  [EmptyDict EXCEPT !.keys = {"error", "error_type", "repository"},
                    !.error = ErrText("AI analysis failed", exc),
                    !.error_type = class]

\* what analyze_with_ai does once _call_ai_model has returned (raised is
\* FALSE) or raised an AIModelError with message exc: `dict` is what it
\* returns; escaped is TRUE when an exception leaves the method instead
AnalysisResult(raised, exc, is_str, text, repo_data) ==
  LET x == AnalysisExtract(text, repo_data)
      Outer(class, msg) ==
        IF CaughtBy(class, AnalysisOuterClauses) = 0
          THEN [escaped |-> TRUE, dict |-> EmptyDict]
          ELSE [escaped |-> FALSE, dict |-> AnalysisFailed(class, msg)]
  IN IF raised THEN Outer("AIModelError", exc)
     ELSE IF ~is_str THEN [escaped |-> FALSE, dict |-> ResponseTypeError]
     ELSE IF x.exc = "none" THEN [escaped |-> FALSE, dict |-> x.dict]
     ELSE IF CaughtBy(x.exc, AnalysisInnerClauses) # 0
       THEN [escaped |-> FALSE, dict |-> InvalidJsonError(text)]
     ELSE Outer(x.exc, x.msg)

----------------------------------------------------------------------------
(* Input domains.                                                          *)

\* filtered file lists: the paths of one tree snapshot are unique
FileLists == {l \in SeqsUpTo(Paths, MaxPaths) : NoDup(l)}

\* values the AI puts into its array: real paths, an invented one, a number
AnswerValues == {STR(p) : p \in AllPaths} \cup {NUM}

\* the lexemes of a JSON array with the given elements
RECURSIVE ArrayBody(_)
ArrayBody(vals) ==
  IF vals = <<>> THEN <<>>
  ELSE IF Len(vals) = 1 THEN <<vals[1]>>
  ELSE <<vals[1], COMMA>> \o ArrayBody(Tail(vals))

ArrayText(vals) == <<LB>> \o ArrayBody(vals) \o <<RB>>

\* well-formed arrays, bare or wrapped in prose
WrappedArrays ==
  {pre \o ArrayText(v) \o post :
     pre \in {<<>>, <<WORD>>}, post \in {<<>>, <<WORD>>},
     v \in SeqsUpTo(AnswerValues, MaxAnswer)}

\* answers without a well-formed array between the first '[' and the last ']'
OtherTexts ==
  { <<>>, <<WORD>>, <<LB>>, <<RB>>, <<RB, WORD, LB>>,
    <<LB, STR("package.json"), COMMA, RB>>,
    <<LB, STR("package.json"), STR("README.md"), RB>>,
    <<LB, WORD, RB>>,
    <<LB, STR("package.json"), RB, WORD, LB, STR("README.md"), RB>>,
    <<LB, LB, STR("package.json"), RB, COMMA, STR("README.md"), RB>>,
    <<WORD, LB, STR("package.json"), RB, RB>> }

AITexts == WrappedArrays \cup OtherTexts

\* texts of the errors the AI client library raises
E_unauthorized == "401 Unauthorized"
E_api_key      == "Invalid API_KEY provided"
E_forbidden    == "403 Forbidden"
E_authentication == "Authentication error"
E_connection   == "Connection error"
E_timeout      == "Request timed out"
AIErrorTexts ==
  {E_unauthorized, E_api_key, E_forbidden, E_authentication, E_connection, E_timeout}

\* one call of client.chat.completions.create
AIResponses ==
  {[kind |-> "content", text |-> x, msg |-> NoText] : x \in AITexts}
  \cup {[kind |-> "none_content", text |-> <<>>, msg |-> NoText],
        [kind |-> "empty_choices", text |-> <<>>, msg |-> NoText]}
  \cup {[kind |-> "raise", text |-> <<>>, msg |-> m] : m \in AIErrorTexts}

\* one call of client.chat.completions.create answered with one of texts
ResponsesWith(texts, errors) ==
  {[kind |-> "content", text |-> x, msg |-> NoText] : x \in texts}
  \cup {[kind |-> "none_content", text |-> <<>>, msg |-> NoText],
        [kind |-> "empty_choices", text |-> <<>>, msg |-> NoText]}
  \cup {[kind |-> "raise", text |-> <<>>, msg |-> m] : m \in errors}

\* the lexemes of a JSON object with the given member names, each with an
\* empty object as its value
RECURSIVE ObjectBody(_)
ObjectBody(names) ==
  IF names = <<>> THEN <<>>
  ELSE IF Len(names) = 1 THEN <<STR(names[1]), COLON, LC, RC>>
  ELSE <<STR(names[1]), COLON, LC, RC, COMMA>> \o ObjectBody(Tail(names))

ObjectText(names) == <<LC>> \o ObjectBody(names) \o <<RC>>

\* the sections in the order of the schema of structure_prompt
SectionList ==
  <<"directories", "languages", "project_type", "features", "monorepo_analysis",
    "build_system", "deployment", "quality_assurance", "insights">>

\* answers to structure_prompt: the whole schema, bare or wrapped in prose, an
\* object with some or none of the sections, and texts without a well-formed
\* object between the first '{' and the last '}'
StructureTexts ==
  { ObjectText(SectionList),
    <<WORD>> \o ObjectText(SectionList) \o <<WORD>>,
    ObjectText(<<"directories", "languages">>),
    ObjectText(<<>>),
    <<>>, <<WORD>>, <<LC>>, <<RC>>, <<RC, WORD, LC>>,
    <<LC, STR("directories"), RC>>,
    <<LC, STR("directories"), COLON, NUM, COMMA, RC>>,
    ObjectText(<<"directories">>) \o <<WORD>> \o ObjectText(<<"languages">>),
    ArrayText(<<STR("directories")>>) }

StructureResponses == ResponsesWith(StructureTexts, AIErrorTexts)

\* a text of n lexemes that opens with '{', closes with '}' and is no JSON
BrokenText(n) == <<LC>> \o [i \in 1..(n - 2) |-> WORD] \o <<RC>>

\* answers to the comprehensive prompt
FinalTexts ==
  { ObjectText(<<"repository_analysis", "commands">>),
    <<WORD>> \o ObjectText(<<"repository_analysis", "commands">>) \o <<WORD>>,
    ObjectText(<<>>),
    <<>>, <<WORD>>, <<LC>>, <<RC>>, <<RC, WORD, LC>>,
    <<WORD, LC, STR("commands"), RC>>,
    ObjectText(<<"commands">>) \o ObjectText(<<"commands">>),
    BrokenText(RAW_PREVIEW_LEN), BrokenText(RAW_PREVIEW_LEN + 1) }

FinalResponses == ResponsesWith(FinalTexts, AIErrorTexts)

----------------------------------------------------------------------------
(* State.                                                                  *)

VARIABLES
  config,          \* self.config: max_files_to_analyze, max_file_size
  ai_pc,           \* _call_ai_model: "idle", "calling", "returned", "raised"
  attempt,         \* _call_ai_model: the loop variable
  ai_log,          \* one entry per call of the provider, in order
  ai_sleeps,       \* the time.sleep arguments of _call_ai_model, in order
  ai_return,       \* the value _call_ai_model returned
  ai_error,        \* the AIModelError _call_ai_model raised
  ai_calls,        \* calls of the provider since the start: how many were made and
                   \* how many the provider answered by rejecting the credentials
  sel_pc,          \* selector: "idle", "start", "ai", "returned", "raised"
  all_files,       \* the filtered list given to the selector
  sel_branch,      \* which branch produced the selection: "ai", "heuristic"
  sel_result,      \* the list the selector returned
  heuristic_calls, \* number of calls of _heuristic_file_selection
  gh_op,           \* hosting-API operation under way: "repo_info", "tree", "contents"
  gh_pc,           \* _fetch_repo_info / _fetch_complete_file_tree: "idle", "running", "returned", "raised"
  gh_attempt,      \* their loop variable
  gh_log,          \* the responses to the requests they issued, in order
  gh_sleeps,       \* their time.sleep arguments, in order
  gh_return,       \* the value they returned
  gh_error,        \* the GitHubAPIError they raised
  fc_pc,           \* _fetch_file_contents: "idle", "loop", "returned", "raised"
  file_paths,      \* its argument
  fc_i,            \* number of loop iterations finished or left by continue
  file_contents,   \* its dict: path -> stored text
  total_content_size,
  max_total_size,  \* its local, read from Constants.MAX_TOTAL_CONTENT_SIZE
  requested,       \* the paths a content request was issued for, in order
  fc_last,         \* the response to the latest content request
  fc_len,          \* len(decoded_text) before the size limit, latest decoded file
  fc_stop,         \* why the loop ended: "budget", "rate_limit", "end"
  st_pc,           \* _ai_analyze_repo_structure: "idle", "start", "ai", "returned", "raised"
  st_branch,       \* which branch produced its result: "ai", "heuristic"
  structure,       \* the structure analysis it returned
  fa_pc,           \* analyze_with_ai: "idle", "start", "ai", "returned", "raised"
  repo_data,       \* its argument
  analysis,        \* the dict it returned
  pl_pc,           \* main: "off", "start", the stage under way, "context", "exit"
  repo_url,        \* "owner_repo": _parse_github_url returns; "malformed": it raises
  stages,          \* the stages started so far, in order
  context,         \* the dict get_full_repository_context returned
  exit_code,       \* the status main exits with (-1: still running)
  flt_pc,          \* _filter_files called on its own: "idle", "start", "once", "twice"
  flt_in,          \* its argument all_files and the configuration it reads
  flt_out,         \* what it returned, one entry per call
  hs_pc,           \* _heuristic_file_selection called on its own: "idle", "start", "once", "twice"
  hs_in,           \* its argument all_files and config['max_files_to_analyze']
  hs_out,          \* scored_files after the sort and the list returned, one entry per call
  ex_pc,           \* a JSON extraction on its own: "idle", "start", "done"
  ex_in,           \* the extracting function and the answer: prose, JSON value, prose
  ex_out,          \* what the try block of that function did with the answer
  sp_pc,           \* the selector on a long file list: "idle", "start", "done"
  sp_in,           \* its argument all_files, the answer of the AI, max_files_to_analyze
  sp_out,          \* files_sample of the prompt and what the try block did
  tr_run,          \* two runs compared: 0 (none), 1, 2
  tr_first,        \* what the first of the two runs selected, fetched and analysed
  pu_pc,           \* _parse_github_url called on its own: "idle", "start", "done"
  pu_in,           \* its argument repo_url, and how it was put together
  pu_out           \* (owner, repo) it returned, or that it raised ValueError

aiVars  == <<ai_pc, attempt, ai_log, ai_sleeps, ai_return, ai_error, ai_calls>>
selVars == <<sel_pc, all_files, sel_branch, sel_result, heuristic_calls>>
ghVars  == <<gh_pc, gh_attempt, gh_log, gh_sleeps, gh_return, gh_error>>
fcVars  == <<fc_pc, file_paths, fc_i, file_contents, total_content_size,
             max_total_size, requested, fc_last, fc_len, fc_stop>>
stVars  == <<st_pc, st_branch, structure>>
faVars  == <<fa_pc, repo_data, analysis>>
plVars  == <<pl_pc, repo_url, stages, context, exit_code>>
fltVars == <<flt_pc, flt_in, flt_out>>
hsVars  == <<hs_pc, hs_in, hs_out>>
exVars  == <<ex_pc, ex_in, ex_out>>
spVars  == <<sp_pc, sp_in, sp_out>>
trVars  == <<tr_run, tr_first>>
puVars  == <<pu_pc, pu_in, pu_out>>
fnVars  == <<fltVars, hsVars, exVars, spVars, trVars, puVars>>
stageVars == <<stVars, faVars, plVars, fnVars>>
vars    == <<config, aiVars, selVars, gh_op, ghVars, fcVars, stageVars>>

NoReturn == [is_str |-> FALSE, text |-> <<>>]

DefaultConfig ==
  [max_files_to_analyze |-> MaxFilesToAnalyze, max_file_size |-> DEFAULT_MAX_FILE_SIZE]

NoCalls == [made |-> 0, rejected |-> 0]

AIIdle ==
  /\ ai_pc = "idle" /\ attempt = 0 /\ ai_log = <<>> /\ ai_sleeps = <<>>
  /\ ai_return = NoReturn /\ ai_error = NoError /\ ai_calls = NoCalls

SelIdle ==
  /\ sel_pc = "idle" /\ all_files = <<>> /\ sel_branch = "none"
  /\ sel_result = <<>> /\ heuristic_calls = 0

NoHostReturn == [empty |-> TRUE, files |-> <<>>]
NoHostError  == [kind |-> "none", cause |-> "none"]

GhIdle ==
  /\ gh_pc = "idle" /\ gh_attempt = 0 /\ gh_log = <<>> /\ gh_sleeps = <<>>
  /\ gh_return = NoHostReturn /\ gh_error = NoHostError

FcIdle ==
  /\ fc_pc = "idle" /\ file_paths = <<>> /\ fc_i = 0 /\ file_contents = <<>>
  /\ total_content_size = 0 /\ max_total_size = MAX_TOTAL_CONTENT_SIZE
  /\ requested = <<>> /\ fc_last = "none" /\ fc_len = 0 /\ fc_stop = "none"

StIdle == st_pc = "idle" /\ st_branch = "none" /\ structure = NoStructure

FaIdle == fa_pc = "idle" /\ repo_data = EmptyDict /\ analysis = EmptyDict

\* no run of main: one operation is called on its own
PlOff ==
  /\ pl_pc = "off" /\ repo_url = "none" /\ stages = <<>>
  /\ context = EmptyDict /\ exit_code = -1

\* no function is called on its own
NoFilterInput == [all_files |-> <<>>, config |-> DefaultFilterConfig]
FltIdle == flt_pc = "idle" /\ flt_in = NoFilterInput /\ flt_out = <<>>
NoHeuristicInput == [all_files |-> <<>>, max_files_to_analyze |-> 0]
HsIdle == hs_pc = "idle" /\ hs_in = NoHeuristicInput /\ hs_out = <<>>
NoExtractInput == [site |-> "none", pre |-> <<>>, json |-> <<>>, post |-> <<>>]
ExIdle == ex_pc = "idle" /\ ex_in = NoExtractInput /\ ex_out = [branch |-> "none"]
NoPromptInput == [all_files |-> <<>>, answer |-> <<>>, max_files_to_analyze |-> 0]
NoPromptOutput == [files_sample |-> <<>>, branch |-> "none", files |-> <<>>]
SpIdle == sp_pc = "idle" /\ sp_in = NoPromptInput /\ sp_out = NoPromptOutput
NoFirstRun ==
  [log |-> <<>>, sel_branch |-> "none", important_files |-> <<>>,
   file_contents |-> <<>>, st_branch |-> "none", structure |-> NoStructure]
TrIdle == tr_run = 0 /\ tr_first = NoFirstRun
NoUrlInput == [form |-> "none", repo_url |-> <<>>, owner |-> <<>>, name |-> <<>>]
NoParse == [ok |-> FALSE, owner |-> <<>>, repo |-> <<>>]
PuIdle == pu_pc = "idle" /\ pu_in = NoUrlInput /\ pu_out = NoParse
FnIdle == FltIdle /\ HsIdle /\ ExIdle /\ SpIdle /\ TrIdle /\ PuIdle

StagesIdle == StIdle /\ FaIdle /\ PlOff /\ FnIdle

----------------------------------------------------------------------------
(* _call_ai_model                                                          *)

E_empty_response == "AI model returned empty response"
\* ['authentication', 'api_key', 'unauthorized', 'forbidden']
AuthTerms == { <<"a","u","t","h","e","n","t","i","c","a","t","i","o","n">>,
               <<"a","p","i","_","k","e","y">>,
               <<"u","n","a","u","t","h","o","r","i","z","e","d">>,
               <<"f","o","r","b","i","d","d","e","n">> }

\* the choice test left out: every answer that did not raise counts
HasChoices_Always(r) == r.kind \in {"content", "none_content", "empty_choices"}

\* response.choices and len(response.choices) > 0
HasChoices(r) == r.kind \in {"content", "none_content"}

\* the text of the exception the try block ends with (NoText: none)
AttemptError(r) ==
  IF r.kind = "raise" THEN r.msg
  ELSE IF ~HasChoices(r) THEN E_empty_response
  ELSE NoText

\* no error is classified as an authentication error
IsAuthError_Never(msg) == FALSE

\* the marker list without 'unauthorized'
IsAuthError_NoUnauthorized(msg) ==
  \E term \in AuthTerms \ {<<"u","n","a","u","t","h","o","r","i","z","e","d">>} :
    Contains(ToLower(Chars(msg)), term)

\* any(term in error_str for term in [...]) with error_str = str(e).lower()
IsAuthError(msg) == \E term \in AuthTerms : Contains(ToLower(Chars(msg)), term)

\* a retry loop that never takes an attempt for the last one
IsLastAttempt_Never(a) == FALSE

\* the last-attempt test off by one
IsLastAttempt_OffByOne(a) == a = AI_MAX_RETRIES

\* attempt == Constants.AI_MAX_RETRIES - 1
IsLastAttempt(a) == a = AI_MAX_RETRIES - 1

\* a backoff that does not grow: the same delay after every failed attempt
WaitTime_Constant(a) == AI_RETRY_DELAY

\* wait_time = Constants.AI_RETRY_DELAY * (2 ** attempt)
WaitTime(a) == AI_RETRY_DELAY * (2 ^ a)

\* a run of main draws the answers of the provider from these
PipelineErrors == {E_unauthorized, E_timeout}
PipelineSelectResponses ==
  ResponsesWith({ArrayText(<<STR("package.json"), STR("README.md"),
                             STR("src/index.js")>>),
                 ArrayText(<<STR(MissingPath)>>), <<WORD>>}, PipelineErrors)
PipelineStructureResponses ==
  ResponsesWith({ObjectText(SectionList), ObjectText(<<"directories">>), <<WORD>>,
                 <<LC, STR("directories"), RC>>}, PipelineErrors)
PipelineFinalResponses ==
  ResponsesWith({ObjectText(<<"repository_analysis", "commands">>), <<WORD>>,
                 <<WORD, LC, STR("commands"), RC>>}, PipelineErrors)

\* the answers drawn where only the retry loop of _call_ai_model is looked at
RetryResponses == ResponsesWith({<<WORD>>}, AIErrorTexts)

\* the call of the provider that entry e of ai_log records
ResponseOf(e) ==
  [kind |-> e.kind, text |-> e.text, msg |-> IF e.kind = "raise" THEN e.msg ELSE NoText]

\* the second of two runs gets the answers the first one got, in order
ReplayedResponses ==
  IF attempt < Len(tr_first.log) THEN {ResponseOf(tr_first.log[attempt + 1])} ELSE {}

\* the answers the provider can give to the prompt of the caller
ProviderResponses ==
  IF pl_pc = "off" /\ gh_pc # "idle" THEN RetryResponses
  ELSE IF tr_run = 2 THEN ReplayedResponses
  ELSE IF tr_run = 1 THEN PipelineStructureResponses
  ELSE IF st_pc = "ai"
    THEN (IF pl_pc = "off" THEN StructureResponses ELSE PipelineStructureResponses)
  ELSE IF fa_pc = "ai"
    THEN (IF pl_pc = "off" THEN FinalResponses ELSE PipelineFinalResponses)
  ELSE IF pl_pc = "off" THEN AIResponses ELSE PipelineSelectResponses

\* the provider answered the call by rejecting the credentials
CredentialsRejected(r) ==
  r.kind = "raise" /\ r.msg \in {E_unauthorized, E_api_key, E_forbidden, E_authentication}

\* except Exception as e
AIExceptClauses == <<"Exception">>

\* one iteration of the loop of _call_ai_model: one call of the provider.
\* Every iteration returns, raises or goes on to the next one, so the raise
\* after the loop ("Unexpected error") is never reached and has no action.
CallAIAttempt ==
  /\ ai_pc = "calling"
  /\ attempt < AI_MAX_RETRIES
  /\ \E r \in ProviderResponses :
       LET e == AttemptError(r)
           cls == IF r.kind = "raise" THEN "APIError" ELSE "AIModelError"
       IN /\ ai_log' = Append(ai_log, [kind |-> r.kind, msg |-> e, text |-> r.text])
          /\ ai_calls' = [made |-> ai_calls.made + 1,
                          rejected |-> ai_calls.rejected +
                                         (IF CredentialsRejected(r) THEN 1 ELSE 0)]
          /\ IF HasChoices(r)
               THEN /\ ai_pc' = "returned"
                    /\ ai_return' = [is_str |-> r.kind = "content", text |-> r.text]
                    /\ UNCHANGED <<attempt, ai_sleeps, ai_error>>
             ELSE IF CaughtBy(cls, AIExceptClauses) = 0
               THEN /\ ai_pc' = "raised"
                    /\ ai_error' = [kind |-> cls, cause |-> e]
                    /\ UNCHANGED <<attempt, ai_sleeps, ai_return>>
             ELSE IF IsAuthError(e)
               THEN /\ ai_pc' = "raised"
                    /\ ai_error' = [kind |-> "authentication_failed", cause |-> e]
                    /\ UNCHANGED <<attempt, ai_sleeps, ai_return>>
             ELSE IF IsLastAttempt(attempt)
               THEN /\ ai_pc' = "raised"
                    /\ ai_error' = [kind |-> "failed_after_attempts", cause |-> e]
                    /\ UNCHANGED <<attempt, ai_sleeps, ai_return>>
             ELSE /\ ai_sleeps' = Append(ai_sleeps, WaitTime(attempt))
                  /\ attempt' = attempt + 1
                  /\ UNCHANGED <<ai_pc, ai_return, ai_error>>
  /\ UNCHANGED <<stageVars, config, selVars, gh_op, ghVars, fcVars>>

InitAI ==
  /\ config = DefaultConfig
  /\ ai_pc = "calling" /\ attempt = 0 /\ ai_log = <<>> /\ ai_sleeps = <<>>
  /\ ai_return = NoReturn /\ ai_error = NoError /\ ai_calls = NoCalls
  /\ SelIdle
  /\ gh_op = "none" /\ GhIdle /\ FcIdle
  /\ StagesIdle

NextAI == CallAIAttempt

SpecAI == InitAI /\ [][NextAI]_vars

----------------------------------------------------------------------------
(* _ai_select_files_to_analyze                                             *)

\* the selector builds its prompt and calls _call_ai_model
SelectCallAI ==
  /\ sel_pc = "start"
  /\ ai_pc = "idle"
  /\ sel_pc' = "ai"
  /\ ai_pc' = "calling"
  /\ attempt' = 0
  /\ UNCHANGED <<stageVars, config, ai_log, ai_sleeps, ai_return, ai_error, ai_calls,
                 all_files, sel_branch, sel_result, heuristic_calls,
                 gh_op, ghVars, fcVars>>

\* the selector after _call_ai_model has returned or raised
SelectFinish ==
  /\ sel_pc = "ai"
  /\ ai_pc \in {"returned", "raised"}
  /\ LET max_files == config.max_files_to_analyze
         try == IF ai_pc = "raised"
                  THEN [branch |-> "raise", files |-> <<>>, exc |-> "AIModelError"]
                  ELSE SelectorTry(ai_return.is_str, ai_return.text,
                                   all_files, max_files)
     IN IF try.branch = "ai"
          THEN /\ sel_pc' = "returned"
               /\ sel_branch' = "ai"
               /\ sel_result' = try.files
               /\ UNCHANGED heuristic_calls
        ELSE IF try.branch = "raise" /\ CaughtBy(try.exc, SelectorExceptClauses) = 0
          THEN /\ sel_pc' = "raised"
               /\ UNCHANGED <<sel_branch, sel_result, heuristic_calls>>
        ELSE /\ sel_pc' = "returned"
             /\ sel_branch' = "heuristic"
             /\ sel_result' = HeuristicFileSelection(all_files, max_files)
             /\ heuristic_calls' = heuristic_calls + 1
  /\ UNCHANGED <<stageVars, config, aiVars, all_files, gh_op, ghVars, fcVars>>

InitSelect ==
  /\ config \in {[DefaultConfig EXCEPT !.max_files_to_analyze = n] :
                   n \in 0..MaxFilesToAnalyze}
  /\ AIIdle
  /\ sel_pc = "start"
  /\ all_files \in FileLists
  /\ sel_branch = "none" /\ sel_result = <<>> /\ heuristic_calls = 0
  /\ gh_op = "none" /\ GhIdle /\ FcIdle
  /\ StagesIdle

NextSelect == SelectCallAI \/ CallAIAttempt \/ SelectFinish

SpecSelect == InitSelect /\ [][NextSelect]_vars

----------------------------------------------------------------------------
(* Hosting API: _fetch_repo_info and _fetch_complete_file_tree             *)

\* what one requests.get can end with: a 200 answer, a 403 answer with the
\* rate-limit text, another error status, a timeout, a connection failure
HostResponseKinds == {"ok", "rate_limit", "http_error", "timeout", "conn_error"}

\* the file trees a 200 answer of the tree endpoint lists (blobs only)
TreeLists == {l \in SeqsUpTo(TreePaths, MaxPaths) : NoDup(l)}

\* the attempt without the rate-limit test: raise_for_status raises on the 403
HostAttemptException_NoRateLimitTest(kind) ==
  CASE kind = "ok"         -> "none"
    [] kind = "rate_limit" -> "HTTPError"
    [] kind = "http_error" -> "HTTPError"
    [] kind = "timeout"    -> "Timeout"
    [] kind = "conn_error" -> "ConnectionError"

\* the exception the try block of one attempt ends with ("none": it returns)
HostAttemptException(kind) ==
  CASE kind = "ok"         -> "none"
    [] kind = "rate_limit" -> "GitHubAPIError"
    [] kind = "http_error" -> "HTTPError"
    [] kind = "timeout"    -> "Timeout"
    [] kind = "conn_error" -> "ConnectionError"

\* the retry loop without its `except RequestException` clause
HostExceptClauses_TimeoutOnly == <<"Timeout">>

\* except requests.exceptions.Timeout / except requests.exceptions.RequestException
HostExceptClauses == <<"Timeout", "RequestException">>

\* if attempt < 2: time.sleep(2 ** attempt)
HostSleeps(a) == IF a < GITHUB_MAX_ATTEMPTS - 1 THEN <<2 ^ a>> ELSE <<>>

\* one iteration of the retry loop of _fetch_repo_info (op = "repo_info") or
\* _fetch_complete_file_tree (op = "tree"): one request and its handling
HostAttempt(op, kind, files) ==
  LET exc    == HostAttemptException(kind)
      clause == CaughtBy(exc, HostExceptClauses)
      last   == ~(gh_attempt < GITHUB_MAX_ATTEMPTS - 1)
  IN /\ gh_log' = Append(gh_log, kind)
     /\ IF exc = "none"
          THEN \* return repo_data / return file_paths
               /\ gh_pc' = "returned"
               /\ gh_return' = [empty |-> (op = "tree" /\ files = <<>>), files |-> files]
               /\ UNCHANGED <<gh_attempt, gh_sleeps, gh_error>>
        ELSE IF clause = 0
          THEN \* the GitHubAPIError of the rate limit passes both except clauses
               /\ gh_pc' = "raised"
               /\ gh_error' = [kind |-> "rate_limit_exceeded", cause |-> kind]
               /\ UNCHANGED <<gh_attempt, gh_sleeps, gh_return>>
        ELSE IF clause = 1
          THEN \* except Timeout: sleep unless last, then continue
               /\ gh_sleeps' = gh_sleeps \o HostSleeps(gh_attempt)
               /\ gh_attempt' = gh_attempt + 1
               /\ IF last
                    THEN \* the loop is over: return {} / return []
                         /\ gh_pc' = "returned"
                         /\ gh_return' = NoHostReturn
                    ELSE UNCHANGED <<gh_pc, gh_return>>
               /\ UNCHANGED gh_error
        ELSE \* except RequestException: sleep and continue, or raise when last
             IF ~last
               THEN /\ gh_sleeps' = gh_sleeps \o HostSleeps(gh_attempt)
                    /\ gh_attempt' = gh_attempt + 1
                    /\ UNCHANGED <<gh_pc, gh_return, gh_error>>
               ELSE /\ gh_pc' = "raised"
                    /\ gh_error' = [kind |-> "failed_to_fetch", cause |-> kind]
                    /\ UNCHANGED <<gh_attempt, gh_sleeps, gh_return>>

FetchRepoInfoAttempt ==
  /\ gh_op = "repo_info"
  /\ gh_pc = "running"
  /\ gh_attempt < GITHUB_MAX_ATTEMPTS
  /\ \E kind \in HostResponseKinds : HostAttempt("repo_info", kind, <<>>)
  /\ UNCHANGED <<stageVars, config, aiVars, selVars, gh_op, fcVars>>

FetchTreeAttempt ==
  /\ gh_op = "tree"
  /\ gh_pc = "running"
  /\ gh_attempt < GITHUB_MAX_ATTEMPTS
  /\ \E kind \in HostResponseKinds :
       \E files \in (IF kind = "ok" THEN TreeLists ELSE {<<>>}) :
         HostAttempt("tree", kind, files)
  /\ UNCHANGED <<stageVars, config, aiVars, selVars, gh_op, fcVars>>

----------------------------------------------------------------------------
(* _fetch_file_contents                                                    *)

\* lengths (in characters) of the decoded text of a file
FileLens == {60, 50000, 50001}

\* what one content request can end with
ContentResponses ==
  {[kind |-> k, len |-> 0] :
     k \in {"rate_limit", "not_found", "http_error", "timeout", "conn_error",
            "bad_json", "other_encoding", "bad_base64", "binary"}}
  \cup {[kind |-> "text", len |-> n] : n \in FileLens}

\* the process is interrupted (SIGINT) while the request is under way:
\* requests.get raises KeyboardInterrupt
Interrupted == [kind |-> "interrupt", len |-> 0]

\* a run of main draws the answers to its content requests from these
PipelineContentResponses ==
  {r \in ContentResponses :
     \/ r.kind \in {"rate_limit", "timeout", "binary"}
     \/ (r.kind = "text" /\ r.len \in {60, MAX_FILE_SIZE_CAP + 1})}
  \cup {Interrupted}

ContentResponsesNow ==
  IF pl_pc = "off" THEN ContentResponses ELSE PipelineContentResponses

\* the exception the body of one iteration ends with ("none": no exception)
ContentException(kind) ==
  CASE kind = "http_error" -> "HTTPError"
    [] kind = "timeout"    -> "Timeout"
    [] kind = "conn_error" -> "ConnectionError"
    [] kind = "bad_json"   -> "JSONDecodeError"
    [] kind = "bad_base64" -> "binascii.Error"
    [] kind = "binary"     -> "UnicodeDecodeError"
    [] kind = "interrupt"  -> "KeyboardInterrupt"
    [] OTHER               -> "none"

\* the catch-all clause left out
ContentExceptClauses_RequestOnly == <<"RequestException">>

\* except requests.exceptions.RequestException / except Exception (the inner
\* except UnicodeDecodeError and except Exception continue as well)
ContentExceptClauses == <<"RequestException", "Exception">>

\* bytes.decode('utf-8', errors='ignore'): undecodable bytes count as text
Decodes_IgnoreErrors(kind) == kind \in {"text", "binary"}

\* content_data.get('encoding') == 'base64' and both base64.b64decode and
\* decode('utf-8') succeed
Decodes(kind) == kind = "text"

\* the size limit left out: the whole decoded text is stored
StoredText_KeepAll(len, max_size) == [keep |-> len, marker |-> FALSE]

\* decoded_text after the per-file size limit: the characters kept and
\* whether the truncation marker was appended
StoredText(len, max_size) ==
  IF len > max_size THEN [keep |-> max_size, marker |-> TRUE]
  ELSE [keep |-> len, marker |-> FALSE]

\* len(decoded_text) of a stored text
StoredLen(v) == v.keep + (IF v.marker THEN TRUNCATION_MARKER_LEN ELSE 0)

\* file_contents[file_path] = decoded_text
Put(map, key, value) ==
  [p \in (DOMAIN map) \cup {key} |-> IF p = key THEN value ELSE map[p]]

\* sum(len(v) for v in file_contents.values())
RECURSIVE SumLens(_, _)
SumLens(map, keys) ==
  IF keys = {} THEN 0
  ELSE LET k == CHOOSE x \in keys : TRUE
       IN StoredLen(map[k]) + SumLens(map, keys \ {k})

TotalStored(map) == SumLens(map, DOMAIN map)

\* the loop without its rate-limit test: the 403 answer is handled like any
\* other answer
RateLimited_Never(kind) == FALSE

\* response.status_code == 403 and 'rate limit' in response.text.lower()
RateLimited(kind) == kind = "rate_limit"

\* the loop without its budget check
BudgetReached_Never == FALSE

\* if total_content_size >= max_total_size: break
BudgetReached == total_content_size >= max_total_size

\* the loop is left by the budget check before any request
FetchBudgetStop ==
  /\ fc_pc = "loop"
  /\ fc_i < Len(file_paths)
  /\ BudgetReached
  /\ fc_pc' = "returned"
  /\ fc_stop' = "budget"
  /\ UNCHANGED <<stageVars, config, aiVars, selVars, gh_op, ghVars, file_paths, fc_i,
                 file_contents, total_content_size, max_total_size, requested,
                 fc_last, fc_len>>

\* one iteration of the loop: the request for file_paths[fc_i] and its handling
FetchFileStep ==
  /\ fc_pc = "loop"
  /\ fc_i < Len(file_paths)
  /\ ~BudgetReached
  /\ \E r \in ContentResponsesNow :
       LET file_path == file_paths[fc_i + 1]
           exc == ContentException(r.kind)
           text == StoredText(r.len, config.max_file_size)
       IN /\ requested' = Append(requested, file_path)
          /\ fc_last' = r.kind
          /\ fc_len' = r.len
          /\ IF RateLimited(r.kind)
               THEN \* break
                    /\ fc_pc' = "returned"
                    /\ fc_stop' = "rate_limit"
                    /\ UNCHANGED <<fc_i, file_contents, total_content_size>>
             ELSE IF exc # "none" /\ CaughtBy(exc, ContentExceptClauses) = 0
               THEN /\ fc_pc' = "raised"
                    /\ UNCHANGED <<fc_i, file_contents, total_content_size, fc_stop>>
             ELSE IF Decodes(r.kind)
               THEN /\ file_contents' = Put(file_contents, file_path, text)
                    /\ total_content_size' = total_content_size + StoredLen(text)
                    /\ fc_i' = fc_i + 1
                    /\ UNCHANGED <<fc_pc, fc_stop>>
             ELSE \* 404, a caught exception, an unexpected encoding: next path
                  /\ fc_i' = fc_i + 1
                  /\ UNCHANGED <<fc_pc, fc_stop, file_contents, total_content_size>>
  /\ UNCHANGED <<stageVars, config, aiVars, selVars, gh_op, ghVars, file_paths, max_total_size>>

\* the loop has gone through every path: return file_contents
FetchLoopEnd ==
  /\ fc_pc = "loop"
  /\ fc_i = Len(file_paths)
  /\ fc_pc' = "returned"
  /\ fc_stop' = "end"
  /\ UNCHANGED <<stageVars, config, aiVars, selVars, gh_op, ghVars, file_paths, fc_i,
                 file_contents, total_content_size, max_total_size, requested,
                 fc_last, fc_len>>

\* (budget, max_file_size): the hard-coded budget with the default and the
\* largest accepted per-file limit, and the 100-character budget of the
\* content-budget scenario
FetchSettings ==
  { [budget |-> MAX_TOTAL_CONTENT_SIZE, max_file_size |-> DEFAULT_MAX_FILE_SIZE],
    [budget |-> MAX_TOTAL_CONTENT_SIZE, max_file_size |-> MAX_FILE_SIZE_CAP],
    [budget |-> 100, max_file_size |-> DEFAULT_MAX_FILE_SIZE] }

----------------------------------------------------------------------------
(* The three hosting-API operations, each called on its own.               *)

InitGitHub ==
  /\ AIIdle /\ SelIdle /\ StagesIdle
  /\ gh_op \in {"repo_info", "tree", "contents"}
  /\ gh_attempt = 0 /\ gh_log = <<>> /\ gh_sleeps = <<>>
  /\ gh_return = NoHostReturn /\ gh_error = NoHostError
  /\ fc_i = 0 /\ file_contents = <<>> /\ total_content_size = 0
  /\ requested = <<>> /\ fc_last = "none" /\ fc_len = 0 /\ fc_stop = "none"
  /\ IF gh_op = "contents"
       THEN /\ gh_pc = "idle"
            /\ fc_pc = "loop"
            /\ file_paths \in SeqsUpTo(Paths, MaxPaths)
            /\ \E s \in FetchSettings :
                 /\ max_total_size = s.budget
                 /\ config = [DefaultConfig EXCEPT !.max_file_size = s.max_file_size]
       ELSE /\ gh_pc = "running"
            /\ fc_pc = "idle"
            /\ file_paths = <<>>
            /\ max_total_size = MAX_TOTAL_CONTENT_SIZE
            /\ config = DefaultConfig

NextGitHub ==
  \/ FetchRepoInfoAttempt
  \/ FetchTreeAttempt
  \/ FetchBudgetStop
  \/ FetchFileStep
  \/ FetchLoopEnd

SpecGitHub == InitGitHub /\ [][NextGitHub]_vars

----------------------------------------------------------------------------
(* Properties of _fetch_file_contents (SpecGitHub).                        *)

\* C1: when _fetch_file_contents returns, the sum of the lengths of all stored
\* contents is <= the total content budget (MAX_TOTAL_CONTENT_SIZE).
C1_TotalWithinBudget ==
  fc_pc = "returned" => TotalStored(file_contents) <= max_total_size

\* C2: with a budget of 100 characters and three distinct requested files that
\* all answer with 60 characters of text, only the first file is requested
\* and stored.
C2_OnlyFirstFileFetched ==
  ( /\ fc_pc = "returned"
    /\ max_total_size = 100
    /\ Len(file_paths) = 3 /\ NoDup(file_paths)
    /\ \A i \in 1..Len(requested) :
         /\ requested[i] \in DOMAIN file_contents
         /\ file_contents[requested[i]] = [keep |-> 60, marker |-> FALSE] )
  => /\ requested = <<file_paths[1]>>
     /\ DOMAIN file_contents = {file_paths[1]}

----------------------------------------------------------------------------
(* Properties of _ai_select_files_to_analyze (SpecSelect).                 *)

\* the array the selector reads out of the answer of the AI
AnswerParsed ==
  JsonLoads(Slice(ai_return.text, FindOpen(ai_return.text),
                  RFindClosePlus1(ai_return.text)))

\* the answer of the AI is a text with an opening and a closing bracket
AnswerHasBrackets ==
  /\ ai_pc = "returned" /\ ai_return.is_str
  /\ FindOpen(ai_return.text) # -1
  /\ RFindClosePlus1(ai_return.text) > 0

\* the entries of items that are strings and members of files, in order
RECURSIVE KeptEntries(_, _)
KeptEntries(items, files) ==
  IF items = <<>> THEN <<>>
  ELSE (IF Head(items).k = "str" /\ (\E i \in 1..Len(files) : files[i] = Head(items).s)
          THEN <<Head(items).s>> ELSE <<>>)
       \o KeptEntries(Tail(items), files)

AIPathFailed ==
  \/ ai_pc = "raised"
  \/ /\ ai_pc = "returned"
     /\ \/ ~ai_return.is_str
        \/ ~AnswerHasBrackets
        \/ ~AnswerParsed.ok

\* C4: no exception leaves the selector, and after any failure of the AI
\* path it returns exactly the heuristic selection of the same filtered list.
C4_NeverFailsOutward ==
  /\ sel_pc # "raised"
  /\ (sel_pc = "returned" /\ AIPathFailed) =>
       /\ sel_branch = "heuristic"
       /\ sel_result = HeuristicFileSelection(all_files, config.max_files_to_analyze)

C4_Witness ==
  /\ sel_pc = "returned"
  /\ ai_pc = "raised" /\ ai_error.kind = "authentication_failed"
  /\ sel_result = <<"package.json", "README.md">>

\* C5: when the answer parses to a list, the entries that are strings and
\* members of the filtered list are kept in the AI's order; a non-empty kept
\* list is returned truncated to max_files_to_analyze without a fallback, an
\* empty one gives the heuristic selection. The answer [package.json,
\* missing.txt] against {package.json, src/index.js} yields [package.json].
C5_ValidSubsetAccepted ==
  /\ (sel_pc = "returned" /\ AnswerHasBrackets /\ AnswerParsed.ok) =>
       LET kept == KeptEntries(AnswerParsed.items, all_files)
       IN IF kept # <<>>
            THEN /\ sel_branch = "ai"
                 /\ sel_result = Take(kept, config.max_files_to_analyze)
                 /\ heuristic_calls = 0
            ELSE /\ sel_branch = "heuristic"
                 /\ sel_result =
                      HeuristicFileSelection(all_files, config.max_files_to_analyze)
  /\ ( /\ sel_pc = "returned"
       /\ ai_pc = "returned" /\ ai_return.is_str
       /\ ai_return.text =
            <<WORD, LB, STR("package.json"), COMMA, STR(MissingPath), RB>>
       /\ all_files = <<"package.json", "src/index.js">>
       /\ config.max_files_to_analyze >= 1 )
     => sel_result = <<"package.json">>

C5_Witness ==
  /\ sel_pc = "returned" /\ sel_branch = "ai" /\ heuristic_calls = 0
  /\ ai_return.text = <<WORD, LB, STR("package.json"), COMMA, STR(MissingPath), RB>>
  /\ all_files = <<"package.json", "src/index.js">>
  /\ sel_result = <<"package.json">>

----------------------------------------------------------------------------
(* Properties of _call_ai_model (SpecAI).                                  *)

\* error texts that carry an authentication / unauthorized / forbidden marker
AuthMarkedTexts == {E_unauthorized, E_forbidden, E_authentication}

\* the attempt logged at position i failed
AttemptFailed(i) == ai_log[i].kind \in {"raise", "empty_choices"}

\* C6: an attempt that fails with an authentication-classified error is the
\* last attempt of the invocation, which raises the authentication-failed
\* error; a first attempt failing with "unauthorized" is the only attempt.
C6_AuthNeverRetried ==
  \A i \in 1..Len(ai_log) :
    (ai_log[i].kind = "raise" /\ ai_log[i].msg \in AuthMarkedTexts) =>
      /\ i = Len(ai_log)
      /\ ai_pc = "raised"
      /\ ai_error = [kind |-> "authentication_failed", cause |-> ai_log[i].msg]

C6_Witness ==
  /\ Len(ai_log) = 1
  /\ ai_log[1].msg = E_unauthorized
  /\ ai_pc = "raised" /\ ai_error.kind = "authentication_failed"

\* C7: one invocation makes at most AI_MAX_RETRIES attempts; a successful
\* attempt is the last one and its content is what is returned; three
\* failures without authentication marker raise the terminal error, which
\* carries the error of the third attempt.
C7_BoundedAttempts ==
  /\ Len(ai_log) <= AI_MAX_RETRIES
  /\ \A i \in 1..Len(ai_log) :
       ~AttemptFailed(i) =>
         /\ i = Len(ai_log)
         /\ ai_pc = "returned"
         /\ ai_return.text = ai_log[i].text
         /\ \A j \in 1..(i - 1) : AttemptFailed(j)
  /\ ( /\ Len(ai_log) = AI_MAX_RETRIES
       /\ \A i \in 1..AI_MAX_RETRIES :
            AttemptFailed(i) /\ ai_log[i].msg \in {E_connection, E_timeout, E_empty_response} )
     => /\ ai_pc = "raised"
        /\ ai_error = [kind |-> "failed_after_attempts",
                       cause |-> ai_log[AI_MAX_RETRIES].msg]

C7_Witness ==
  /\ Len(ai_log) = AI_MAX_RETRIES
  /\ ai_log[1].msg = E_connection /\ ai_log[2].msg = E_connection
  /\ ai_log[3].msg = E_timeout
  /\ ai_pc = "raised" /\ ai_error.cause = E_timeout

\* C8: an attempt that returns an empty choice list is a failed attempt: the
\* call never returns from it, it is followed by a backoff sleep and another
\* attempt while attempts remain, and three of them in a row end in the
\* terminal error.
C8_EmptyChoicesRetried ==
  \A i \in 1..Len(ai_log) :
    ai_log[i].kind = "empty_choices" =>
      /\ ~(i = Len(ai_log) /\ ai_pc = "returned")
      /\ i < AI_MAX_RETRIES =>
           /\ Len(ai_sleeps) >= i /\ ai_sleeps[i] = AI_RETRY_DELAY * (2 ^ (i - 1))
           /\ i = Len(ai_log) => (ai_pc = "calling" /\ attempt = i)
      /\ i = AI_MAX_RETRIES =>
           /\ ai_pc = "raised"
           /\ ai_error = [kind |-> "failed_after_attempts", cause |-> E_empty_response]

C8_Witness ==
  /\ Len(ai_log) = AI_MAX_RETRIES
  /\ \A i \in 1..AI_MAX_RETRIES : ai_log[i].kind = "empty_choices"
  /\ ai_pc = "raised"
  /\ ai_sleeps = <<2, 4>>

----------------------------------------------------------------------------
(* Properties of the hosting-API operations (SpecGitHub).                  *)

\* a request that ended with a network timeout or a failed connection
TransientFailure(kind) == kind \in {"timeout", "conn_error"}

\* _fetch_repo_info and _fetch_complete_file_tree: a request that failed
\* transiently is followed by another one unless it was the third, and the
\* operation gives up on such a failure only at the third attempt
HostOpsRetry ==
  gh_op \in {"repo_info", "tree"} =>
    /\ Len(gh_log) <= 3
    /\ \A i \in 1..Len(gh_log) :
         (TransientFailure(gh_log[i]) /\ i < 3) =>
           (Len(gh_log) > i \/ gh_pc = "running")
    /\ ( /\ gh_pc \in {"returned", "raised"}
         /\ gh_log # <<>> /\ TransientFailure(gh_log[Len(gh_log)]) )
       => Len(gh_log) = 3

\* _fetch_file_contents: the path whose request failed transiently is still
\* the current one, so that it is requested again
ContentRetry ==
  (gh_op = "contents" /\ TransientFailure(fc_last)) => fc_i < Len(requested)

\* _fetch_file_contents: every position of the list is requested at most
\* once, in order, and a transient failure raises nothing and leaves the loop
\* past the path that failed
ContentSingleAttempt ==
  gh_op = "contents" =>
    /\ requested = SubSeq(file_paths, 1, Len(requested))
    /\ TransientFailure(fc_last) => (fc_pc # "raised" /\ fc_i = Len(requested))

C10_RateLimitNotRetried ==
  gh_op \in {"repo_info", "tree"} =>
    \A i \in 1..Len(gh_log) :
      gh_log[i] = "rate_limit" =>
        /\ i = Len(gh_log)
        /\ gh_pc = "raised"
        /\ gh_error.kind = "rate_limit_exceeded"

C10_Witness ==
  /\ gh_op = "repo_info"
  /\ gh_log = <<"timeout", "rate_limit">>
  /\ gh_pc = "raised" /\ gh_error.kind = "rate_limit_exceeded"
----------------------------------------------------------------------------
(* Content fetcher: per-file failures, the per-file limit, binary files.   *)

\* the responses that fail one file: 404, a request exception, a timeout, an
\* undecodable or unexpected payload
FileFailureKinds ==
  {"not_found", "http_error", "timeout", "conn_error", "bad_json",
   "other_encoding", "bad_base64", "binary"}

\* a content request was issued in this step
ContentRequestStep == requested' # requested

\* the budget check lets the loop go on to file_paths[fc_i + 1], if there is one
LoopGoesOn == fc_pc = "loop" /\ ~BudgetReached

\* C11: a failure on one file never raises out of _fetch_file_contents and
\* never stops its loop; the step that handles the failure leaves the map and
\* the accumulated size as they were, and the loop goes on to the next path
C11_FileFailureSkipsFile ==
  /\ [](fc_pc # "raised")
  /\ [][ (ContentRequestStep /\ fc_last' \in FileFailureKinds)
           => /\ file_contents' = file_contents
              /\ total_content_size' = total_content_size
              /\ fc_i' = fc_i + 1
              /\ LoopGoesOn' ]_vars

\* a file was stored, the next one failed, and the one after it was stored
C11_Witness ==
  /\ fc_pc = "loop" /\ Len(requested) = 3 /\ NoDup(requested)
  /\ fc_last = "text"
  /\ DOMAIN file_contents = {requested[1], requested[3]}

\* C12: a stored value is never longer than max_file_size plus the marker; a
\* text longer than max_file_size is stored as its first max_file_size
\* characters and the marker, a text of at most max_file_size characters is
\* stored whole without the marker
C12_StoredValueWithinLimit ==
  /\ \A p \in DOMAIN file_contents :
       StoredLen(file_contents[p]) <= config.max_file_size + TRUNCATION_MARKER_LEN
  /\ (fc_last = "text") =>
       LET v == file_contents[requested[Len(requested)]]
       IN IF fc_len > config.max_file_size
            THEN v = [keep |-> config.max_file_size, marker |-> TRUE]
            ELSE v = [keep |-> fc_len, marker |-> FALSE]

\* a text one character longer than the limit and a text of exactly the limit
\* have both been stored
C12_Witness ==
  /\ config.max_file_size = MAX_FILE_SIZE_CAP
  /\ fc_last = "text" /\ fc_len = MAX_FILE_SIZE_CAP + 1
  /\ \E p \in DOMAIN file_contents :
       file_contents[p] = [keep |-> MAX_FILE_SIZE_CAP, marker |-> FALSE]
  /\ \E p \in DOMAIN file_contents :
       file_contents[p] = [keep |-> MAX_FILE_SIZE_CAP, marker |-> TRUE]

\* C13: a binary file is never a key of the map (each path requested once),
\* the step that meets it adds no entry and no size, and the loop goes on
C13_BinaryNeverStored ==
  /\ []((fc_last = "binary" /\ NoDup(requested))
          => requested[Len(requested)] \notin DOMAIN file_contents)
  /\ [][ (ContentRequestStep /\ fc_last' = "binary")
           => /\ DOMAIN file_contents' = DOMAIN file_contents
              /\ total_content_size' = total_content_size
              /\ LoopGoesOn' ]_vars

\* a file was stored, the next one turned out binary: the map and the size are
\* those of the first file and the loop is still running
C13_Witness ==
  /\ Len(requested) = 2 /\ NoDup(requested)
  /\ fc_last = "binary"
  /\ fc_pc = "loop" /\ fc_i = 2
  /\ total_content_size = 60
  /\ DOMAIN file_contents = {requested[1]}

----------------------------------------------------------------------------
(* _ai_analyze_repo_structure                                              *)

\* the analyzer builds structure_prompt and calls _call_ai_model
StructureCallAI ==
  /\ st_pc = "start"
  /\ ai_pc = "idle"
  /\ st_pc' = "ai"
  /\ ai_pc' = "calling"
  /\ attempt' = 0
  /\ UNCHANGED <<fnVars, config, ai_log, ai_sleeps, ai_return, ai_error, ai_calls, selVars,
                 gh_op, ghVars, fcVars, st_branch, structure, faVars, plVars>>

\* the call with important_files in the place of filtered_files
StructureFiles_Selected == sel_result

\* the first argument of the call of _ai_analyze_repo_structure:
\* filtered_files
StructureFiles == all_files

\* the analyzer after _call_ai_model has returned or raised
StructureFinish ==
  /\ st_pc = "ai"
  /\ ai_pc \in {"returned", "raised"}
  /\ LET try == IF ai_pc = "raised"
                  THEN [branch |-> "raise", value |-> NoStructure, exc |-> "AIModelError"]
                  ELSE StructureTry(ai_return.is_str, ai_return.text)
     IN IF try.branch = "ai"
          THEN /\ st_pc' = "returned"
               /\ st_branch' = "ai"
               /\ structure' = try.value
        ELSE IF try.branch = "raise" /\ CaughtBy(try.exc, StructureExceptClauses) = 0
          THEN /\ st_pc' = "raised"
               /\ UNCHANGED <<st_branch, structure>>
        ELSE /\ st_pc' = "returned"
             /\ st_branch' = "heuristic"
             /\ structure' = HeuristicStructureAnalysis(StructureFiles)
  /\ UNCHANGED <<fnVars, config, aiVars, selVars, gh_op, ghVars, fcVars, faVars, plVars>>

\* _ai_analyze_repo_structure called on its own
InitStructure ==
  /\ config = DefaultConfig
  /\ AIIdle
  /\ sel_pc = "idle" /\ all_files \in FileLists
  /\ sel_branch = "none" /\ sel_result = <<>> /\ heuristic_calls = 0
  /\ gh_op = "none" /\ GhIdle /\ FcIdle
  /\ st_pc = "start" /\ st_branch = "none" /\ structure = NoStructure
  /\ FaIdle /\ PlOff /\ FnIdle

NextStructure == StructureCallAI \/ CallAIAttempt \/ StructureFinish

SpecStructure == InitStructure /\ [][NextStructure]_vars

----------------------------------------------------------------------------
(* analyze_with_ai                                                         *)

\* the input checks, the prompt and the call of _call_ai_model
AnalyzeStart ==
  /\ fa_pc = "start"
  /\ ai_pc = "idle"
  /\ IF "error" \in repo_data.keys
       THEN \* return repo_data
            /\ fa_pc' = "returned"
            /\ analysis' = repo_data
            /\ UNCHANGED <<ai_pc, attempt, stages>>
     ELSE IF RequiredKeys \ repo_data.keys # {}
       THEN /\ fa_pc' = "returned"
            /\ analysis' = MissingKeysError
            /\ UNCHANGED <<ai_pc, attempt, stages>>
     ELSE /\ fa_pc' = "ai"
          /\ ai_pc' = "calling"
          /\ attempt' = 0
          /\ stages' = Append(stages, "comprehensive_prompt")
          /\ UNCHANGED analysis
  /\ UNCHANGED <<fnVars, config, ai_log, ai_sleeps, ai_return, ai_error, ai_calls, selVars,
                 gh_op, ghVars, fcVars, stVars, repo_data,
                 pl_pc, repo_url, context, exit_code>>

\* analyze_with_ai after _call_ai_model has returned or raised
AnalyzeFinish ==
  /\ fa_pc = "ai"
  /\ ai_pc \in {"returned", "raised"}
  /\ LET r == AnalysisResult(ai_pc = "raised", ai_error, ai_return.is_str,
                             ai_return.text, repo_data)
     IN IF r.escaped
          THEN /\ fa_pc' = "raised"
               /\ UNCHANGED analysis
          ELSE /\ fa_pc' = "returned"
               /\ analysis' = r.dict
  /\ stages' = IF ai_pc = "returned" /\ ai_return.is_str
                 THEN Append(stages, "extract") ELSE stages
  /\ UNCHANGED <<fnVars, config, aiVars, selVars, gh_op, ghVars, fcVars, stVars,
                 repo_data, pl_pc, repo_url, context, exit_code>>

\* the dicts analyze_with_ai is called with: a context of up to MaxPaths
\* files, the same without some required keys, without keys that are not
\* required, and an error result of get_full_repository_context
RepoDataInputs ==
  {[ContextDict(f, <<>>, HeuristicStructureAnalysis(f)) EXCEPT !.analyzed_files = n] :
     f \in FileLists, n \in 0..MaxFilesToAnalyze}
  \cup {[EmptyDict EXCEPT !.keys = ContextKeys \ {"structure", "metadata"}],
        [EmptyDict EXCEPT !.keys = RequiredKeys],
        EmptyDict,
        ContextError("GitHubAPIError", E_no_metadata),
        [ContextError("GitHubAPIError", E_no_metadata) EXCEPT
           !.keys = @ \cup RequiredKeys]}
  \cup {[EmptyDict EXCEPT !.keys = ContextKeys \ {k}] : k \in RequiredKeys}

\* analyze_with_ai called on its own
InitAnalyze ==
  /\ config = DefaultConfig
  /\ AIIdle /\ SelIdle
  /\ gh_op = "none" /\ GhIdle /\ FcIdle
  /\ StIdle
  /\ fa_pc = "start" /\ repo_data \in RepoDataInputs /\ analysis = EmptyDict
  /\ PlOff /\ FnIdle

NextAnalyze == AnalyzeStart \/ CallAIAttempt \/ AnalyzeFinish

SpecAnalyze == InitAnalyze /\ [][NextAnalyze]_vars

----------------------------------------------------------------------------
(* get_full_repository_context and main: one run of the whole pipeline.    *)

\* the locals of a finished call are dropped
GhReset ==
  /\ gh_pc' = "idle" /\ gh_attempt' = 0 /\ gh_log' = <<>> /\ gh_sleeps' = <<>>
  /\ gh_return' = NoHostReturn /\ gh_error' = NoHostError

AIReset ==
  /\ ai_pc' = "idle" /\ attempt' = 0 /\ ai_log' = <<>> /\ ai_sleeps' = <<>>
  /\ ai_return' = NoReturn /\ ai_error' = NoError
  /\ UNCHANGED ai_calls

\* the test that never finds its value empty
Falsy_Never(ret) == FALSE

\* `not repo_info`, `not all_files`
Falsy(ret) == ret.empty

\* the except clause of get_full_repository_context: it returns the error dict
ContextFails(class, exc) ==
  /\ context' = ContextError(class, exc)
  /\ pl_pc' = "context"

\* _parse_github_url, then the first stage: _fetch_repo_info
ContextStart ==
  /\ pl_pc = "start"
  /\ IF repo_url = "malformed"
       THEN /\ ContextFails("ValueError", E_invalid_url)
            /\ UNCHANGED <<stages, gh_op, gh_pc>>
       ELSE /\ pl_pc' = "metadata"
            /\ stages' = Append(stages, "metadata")
            /\ gh_op' = "repo_info"
            /\ gh_pc' = "running"
            /\ UNCHANGED context
  /\ UNCHANGED <<fnVars, config, aiVars, selVars, gh_attempt, gh_log, gh_sleeps,
                 gh_return, gh_error, fcVars, stVars, faVars, repo_url, exit_code>>

\* _fetch_repo_info is over: `if not repo_info: raise`, then _fetch_complete_file_tree
MetadataDone ==
  /\ pl_pc = "metadata"
  /\ gh_pc \in {"returned", "raised"}
  /\ IF gh_pc = "raised"
       THEN /\ ContextFails("GitHubAPIError", gh_error)
            /\ UNCHANGED <<stages, gh_op, ghVars>>
     ELSE IF Falsy(gh_return)
       THEN /\ ContextFails("GitHubAPIError", E_no_metadata)
            /\ UNCHANGED <<stages, gh_op, ghVars>>
     ELSE /\ pl_pc' = "tree"
          /\ stages' = Append(stages, "tree")
          /\ gh_op' = "tree"
          /\ gh_pc' = "running" /\ gh_attempt' = 0 /\ gh_log' = <<>>
          /\ gh_sleeps' = <<>> /\ gh_return' = NoHostReturn
          /\ gh_error' = NoHostError
          /\ UNCHANGED context
  /\ UNCHANGED <<fnVars, config, aiVars, selVars, fcVars, stVars, faVars, repo_url, exit_code>>

\* _fetch_complete_file_tree is over: `if not all_files: raise`, then
\* _filter_files and the start of _ai_select_files_to_analyze
TreeDone ==
  /\ pl_pc = "tree"
  /\ gh_pc \in {"returned", "raised"}
  /\ IF gh_pc = "raised"
       THEN /\ ContextFails("GitHubAPIError", gh_error)
            /\ UNCHANGED <<stages, gh_op, ghVars, sel_pc, all_files>>
     ELSE IF Falsy(gh_return)
       THEN /\ ContextFails("GitHubAPIError", E_no_file_tree)
            /\ UNCHANGED <<stages, gh_op, ghVars, sel_pc, all_files>>
     ELSE /\ pl_pc' = "select"
          /\ stages' = stages \o <<"filter", "select">>
          /\ all_files' = FilterFiles(gh_return.files)
          /\ sel_pc' = "start"
          /\ gh_op' = "none"
          /\ GhReset
          /\ UNCHANGED context
  /\ UNCHANGED <<fnVars, config, aiVars, sel_branch, sel_result, heuristic_calls,
                 fcVars, stVars, faVars, repo_url, exit_code>>

\* _ai_select_files_to_analyze is over: _fetch_file_contents starts
SelectionDone ==
  /\ pl_pc = "select"
  /\ sel_pc \in {"returned", "raised"}
  /\ IF sel_pc = "raised"
       THEN /\ ContextFails("AIModelError", ai_error)
            /\ UNCHANGED <<stages, gh_op, aiVars, selVars, fc_pc, file_paths>>
       ELSE /\ pl_pc' = "contents"
            /\ stages' = Append(stages, "fetch_contents")
            /\ gh_op' = "contents"
            /\ fc_pc' = "loop"
            /\ file_paths' = sel_result
            /\ AIReset
            /\ sel_pc' = "idle" /\ sel_branch' = "none" /\ sel_result' = <<>>
            /\ heuristic_calls' = 0
            /\ UNCHANGED <<all_files, context>>
  /\ UNCHANGED <<fnVars, config, ghVars, fc_i, file_contents, total_content_size,
                 max_total_size, requested, fc_last, fc_len, fc_stop,
                 stVars, faVars, repo_url, exit_code>>

\* except Exception as e, of get_full_repository_context
ContextExceptClauses == <<"Exception">>

\* the except clauses of main, in order
MainExceptClauses ==
  <<"KeyboardInterrupt", "ConfigurationError", "GitHubAPIError", "AIModelError",
    "Exception">>

\* the sys.exit status of the clause of main that catches class: 1 for
\* KeyboardInterrupt, 2 for ConfigurationError, 3 for GitHubAPIError and
\* AIModelError, 4 for any other Exception
MainExitStatus(class) ==
  LET clause == CaughtBy(class, MainExceptClauses)
  IN CASE clause = 1 -> 1
       [] clause = 2 -> 2
       [] clause \in {3, 4} -> 3
       [] OTHER -> 4

\* _fetch_file_contents is over: _ai_analyze_repo_structure starts. An
\* exception it raised goes to the except clause of
\* get_full_repository_context or, when that does not catch it, to main
\* (the frames it leaves are unwound: their locals are dropped)
ContentsDone ==
  /\ pl_pc = "contents"
  /\ fc_pc \in {"returned", "raised"}
  /\ IF fc_pc = "raised"
       THEN LET exc == ContentException(fc_last)
            IN /\ IF CaughtBy(exc, ContextExceptClauses) # 0
                    THEN /\ ContextFails(exc, NoError)
                         /\ UNCHANGED exit_code
                    ELSE /\ pl_pc' = "exit"
                         /\ exit_code' = MainExitStatus(exc)
                         /\ UNCHANGED context
               /\ file_contents' = <<>>
               /\ UNCHANGED <<stages, gh_op, fc_pc, file_paths, fc_i,
                              total_content_size, max_total_size, requested,
                              fc_last, fc_len, fc_stop, st_pc>>
       ELSE /\ pl_pc' = "structure"
            /\ stages' = Append(stages, "analyze_structure")
            /\ gh_op' = "none"
            /\ st_pc' = "start"
            /\ fc_pc' = "idle" /\ file_paths' = <<>> /\ fc_i' = 0
            /\ total_content_size' = 0 /\ requested' = <<>>
            /\ fc_last' = "none" /\ fc_len' = 0 /\ fc_stop' = "none"
            /\ UNCHANGED <<file_contents, max_total_size, context, exit_code>>
  /\ UNCHANGED <<fnVars, config, aiVars, selVars, ghVars, st_branch, structure,
                 faVars, repo_url>>

\* _ai_analyze_repo_structure is over: the context dict is compiled and returned
StructureDone ==
  /\ pl_pc = "structure"
  /\ st_pc \in {"returned", "raised"}
  /\ IF st_pc = "raised"
       THEN /\ ContextFails("AIModelError", ai_error)
            /\ UNCHANGED <<aiVars, all_files, file_contents, st_pc>>
       ELSE /\ context' = ContextDict(all_files, file_contents, structure)
            /\ pl_pc' = "context"
            /\ AIReset
            /\ all_files' = <<>>
            /\ file_contents' = <<>>
            /\ st_pc' = "idle"
  /\ UNCHANGED <<fnVars, config, sel_pc, sel_branch, sel_result, heuristic_calls,
                 gh_op, ghVars, fc_pc, file_paths, fc_i, total_content_size,
                 max_total_size, requested, fc_last, fc_len, fc_stop,
                 st_branch, structure, faVars, repo_url, stages, exit_code>>

\* main after get_full_repository_context: exit on an error result, or call
\* analyze_with_ai with the context
MainContext ==
  /\ pl_pc = "context"
  /\ IF "error" \in context.keys
       THEN /\ pl_pc' = "exit"
            /\ exit_code' = 3
            /\ UNCHANGED <<fa_pc, repo_data>>
       ELSE /\ pl_pc' = "final"
            /\ fa_pc' = "start"
            /\ repo_data' = context
            /\ UNCHANGED exit_code
  /\ UNCHANGED <<fnVars, config, aiVars, selVars, gh_op, ghVars, fcVars, stVars,
                 analysis, repo_url, stages, context>>

\* main after analyze_with_ai: exit 3 on an error result, 4 on an exception
\* that is neither a GitHubAPIError nor an AIModelError, 0 otherwise
MainAnalysis ==
  /\ pl_pc = "final"
  /\ fa_pc \in {"returned", "raised"}
  /\ pl_pc' = "exit"
  /\ exit_code' = IF fa_pc = "raised" THEN 4
                  ELSE IF "error" \in analysis.keys THEN 3
                  ELSE 0
  /\ UNCHANGED <<fnVars, config, aiVars, selVars, gh_op, ghVars, fcVars, stVars,
                 faVars, repo_url, stages, context>>

\* the configurations of a run: the defaults, and the largest per-file limit
\* with room for every path of the tree
RunConfigs ==
  {DefaultConfig,
   [max_files_to_analyze |-> MaxPaths, max_file_size |-> MAX_FILE_SIZE_CAP]}

Init ==
  /\ config \in RunConfigs
  /\ AIIdle /\ SelIdle
  /\ gh_op = "none" /\ GhIdle /\ FcIdle
  /\ StIdle /\ FaIdle /\ FnIdle
  /\ pl_pc = "start"
  /\ repo_url \in {"owner_repo", "malformed"}
  /\ stages = <<>> /\ context = EmptyDict /\ exit_code = -1

Next ==
  \/ ContextStart
  \/ FetchRepoInfoAttempt
  \/ MetadataDone
  \/ FetchTreeAttempt
  \/ TreeDone
  \/ SelectCallAI
  \/ CallAIAttempt
  \/ SelectFinish
  \/ SelectionDone
  \/ FetchBudgetStop
  \/ FetchFileStep
  \/ FetchLoopEnd
  \/ ContentsDone
  \/ StructureCallAI
  \/ StructureFinish
  \/ StructureDone
  \/ MainContext
  \/ AnalyzeStart
  \/ AnalyzeFinish
  \/ MainAnalysis

Spec == Init /\ [][Next]_vars

----------------------------------------------------------------------------
(* Properties of the pipeline and of its two last stages.                  *)

\* _fetch_repo_info or _fetch_complete_file_tree has ended on a failed request
HostFetchFailed ==
  /\ gh_op \in {"repo_info", "tree"}
  /\ gh_pc \in {"returned", "raised"}
  /\ gh_log # <<>>
  /\ gh_log[Len(gh_log)] # "ok"

\* nothing after the hosting-API stage under way has started
NoLaterStage ==
  /\ stages = (IF gh_op = "repo_info" THEN <<"metadata">> ELSE <<"metadata", "tree">>)
  /\ sel_pc = "idle" /\ fc_pc = "idle" /\ st_pc = "idle" /\ fa_pc = "idle"
  /\ requested = <<>> /\ ai_log = <<>>

\* C14: when the metadata fetch or the tree fetch fails, no later stage runs
\* and get_full_repository_context returns an error result that carries the
\* message of the failure and the kind tag error_type
C14_HostFailureEndsRun ==
  HostFetchFailed =>
    /\ NoLaterStage
    /\ pl_pc \in {"metadata", "tree", "context", "exit"}
    /\ (pl_pc \in {"context", "exit"}) =>
         /\ {"error", "error_type"} \subseteq context.keys
         /\ context.error_type = "GitHubAPIError"
         /\ context.error.cause = gh_log[Len(gh_log)]

\* C15: an authentication failure or an exhausted-retry failure of the final
\* AI call makes analyze_with_ai return an error result with the message of
\* the failure and its kind tag: no analysis, no exception
C15_FinalAIFailureReturnsError ==
  (fa_pc \in {"returned", "raised"} /\ ai_pc = "raised") =>
    /\ fa_pc = "returned"
    /\ {"error", "error_type"} \subseteq analysis.keys
    /\ "analysis_metadata" \notin analysis.keys
    /\ analysis.error_type = "AIModelError"
    /\ analysis.error.kind = ai_error.kind
    /\ analysis.error.cause = ai_error.cause
    /\ ai_error.kind \in {"authentication_failed", "failed_after_attempts"}

\* the third attempt failed, and analyze_with_ai returned the error result
C15_Witness ==
  /\ fa_pc = "returned" /\ ai_pc = "raised"
  /\ Len(ai_log) = AI_MAX_RETRIES
  /\ ai_error = [kind |-> "failed_after_attempts", cause |-> E_timeout]
  /\ analysis.error.cause = E_timeout

\* an error dict names the failing stage, the underlying message, the
\* repository and the time
DiagnosableError(dict) ==
  /\ dict.error.prefix # ""
  /\ dict.error.kind # "none"
  /\ dict.keys \cap {"repository", "repo_url"} # {}
  /\ dict.keys \cap {"timestamp", "analysis_timestamp"} # {}

\* C16: every terminal failure path yields an error object, not an
\* exception, and that object holds the failing stage, the underlying
\* message, the repository identifier and a timestamp
C16_ErrorsAreDiagnosable ==
  /\ fa_pc # "raised"
  /\ (fa_pc = "returned" /\ "error" \in analysis.keys) => DiagnosableError(analysis)
  /\ (pl_pc \in {"context", "exit"} /\ "error" \in context.keys)
       => DiagnosableError(context)

\* the text has a lexeme of kind k
HasLexeme(text, k) == \E i \in 1..Len(text) : text[i].k = k

\* the lexemes from the first '{' to the last '}' (none if the last '}' comes
\* before the first '{')
BraceSlice(text) ==
  LET first == CHOOSE i \in 1..Len(text) :
                 text[i].k = "lc" /\ \A j \in 1..(i - 1) : text[j].k # "lc"
      last  == CHOOSE i \in 1..Len(text) :
                 text[i].k = "rc" /\ \A j \in (i + 1)..Len(text) : text[j].k # "rc"
  IN SubSeq(text, first, last)

\* the final AI call returned a text
FinalTextReturned == fa_pc \in {"returned", "raised"} /\ ai_pc = "returned" /\ ai_return.is_str

\* C17: a final response without '{' or without '}' gives an error object, a
\* response whose slice from the first '{' to the last '}' does not parse
\* gives an error object that keeps a prefix of the response, and the
\* analysis_metadata block is there exactly when the slice parsed
C17_InvalidFinalOutputIsError ==
  FinalTextReturned =>
    LET text == ai_return.text
        braces == HasLexeme(text, "lc") /\ HasLexeme(text, "rc")
        parses == braces /\ JsonLoads(BraceSlice(text)).ok
    IN /\ fa_pc = "returned"
       /\ ~braces => "error" \in analysis.keys
       /\ (braces /\ ~parses) =>
            /\ {"error", "raw_response_preview"} \subseteq analysis.keys
            /\ analysis.preview.text = Take(text, RAW_PREVIEW_LEN)
            /\ analysis.preview.ellipsis = (Len(text) > RAW_PREVIEW_LEN)
       /\ parses <=> ("analysis_metadata" \in analysis.keys)
       /\ parses => "error" \notin analysis.keys

\* an unparsable response of more than 200 lexemes: the error object keeps its
\* first 200
C17_Witness ==
  /\ FinalTextReturned /\ fa_pc = "returned"
  /\ Len(ai_return.text) = RAW_PREVIEW_LEN + 1
  /\ "raw_response_preview" \in analysis.keys
  /\ Len(analysis.preview.text) = RAW_PREVIEW_LEN
  /\ analysis.preview.ellipsis

\* the nine sections of a StructureAnalysis
NineSections ==
  {"directories", "languages", "project_type", "features", "monorepo_analysis",
   "build_system", "deployment", "quality_assurance", "insights"}

\* the AI call of the structure analyzer failed: it raised, returned no text,
\* a text without braces, or a text whose brace slice is no JSON
StructureAIFailed ==
  \/ ai_pc = "raised"
  \/ /\ ai_pc = "returned"
     /\ \/ ~ai_return.is_str
        \/ ~(HasLexeme(ai_return.text, "lc") /\ HasLexeme(ai_return.text, "rc"))
        \/ ~JsonLoads(BraceSlice(ai_return.text)).ok

\* C18: _ai_analyze_repo_structure never raises; on any AI failure it returns
\* the heuristic analysis, which has all nine sections and the
\* fallback_analysis marker
C18_StructureFallsBack ==
  /\ st_pc # "raised"
  /\ (st_pc = "returned" /\ StructureAIFailed) =>
       /\ st_branch = "heuristic"
       /\ structure.keys = NineSections
       /\ structure.fallback_analysis

\* the provider refused the key at the first call: the heuristic analysis is
\* returned
C18_Witness ==
  /\ st_pc = "returned"
  /\ ai_pc = "raised" /\ ai_error.kind = "authentication_failed"
  /\ st_branch = "heuristic" /\ structure.fallback_analysis

\* C19: the structure analysis placed in the context always has all nine
\* top-level sections, and the heuristic one has the fallback_analysis marker
C19_StructureHasFixedShape ==
  ("structure" \in context.keys) =>
    /\ NineSections \subseteq context.structure.keys
    /\ (st_branch = "heuristic") => context.structure.fallback_analysis

\* the stages in their fixed order
StageOrder ==
  <<"metadata", "tree", "filter", "select", "fetch_contents",
    "analyze_structure", "comprehensive_prompt", "extract">>

\* what has to be over, and how, when the stage named next starts
EarlierStagesSucceeded(next) ==
  CASE next = "metadata" -> pl_pc = "start" /\ repo_url = "owner_repo"
    [] next = "tree" ->
         gh_op = "repo_info" /\ gh_pc = "returned" /\ ~gh_return.empty
    [] next \in {"filter", "select"} ->
         gh_op = "tree" /\ gh_pc = "returned" /\ ~gh_return.empty
    [] next = "fetch_contents" -> sel_pc = "returned" /\ ai_pc # "calling"
    [] next = "analyze_structure" -> fc_pc = "returned"
    [] next = "comprehensive_prompt" ->
         /\ st_pc = "idle" /\ ai_pc = "idle"
         /\ "error" \notin repo_data.keys /\ "structure" \in repo_data.keys
    [] next = "extract" -> fa_pc = "ai" /\ ai_pc = "returned"

\* the operations that are under way
Running ==
  {op \in {"host", "select", "contents", "structure", "final"} :
     CASE op = "host" -> gh_pc = "running"
       [] op = "select" -> sel_pc \in {"start", "ai"}
       [] op = "contents" -> fc_pc = "loop"
       [] op = "structure" -> st_pc \in {"start", "ai"}
       [] op = "final" -> fa_pc \in {"start", "ai"}}

\* C20: the stages start in the fixed order, none twice, one at a time, and a
\* stage starts only when every earlier stage that can fail the run is over
\* and has succeeded
C20_StagesInOrder ==
  /\ [](/\ Len(stages) <= Len(StageOrder)
        /\ stages = SubSeq(StageOrder, 1, Len(stages))
        /\ Cardinality(Running) <= 1)
  /\ [][ \A i \in (Len(stages) + 1)..Len(stages') :
           /\ i <= Len(StageOrder)
           /\ stages'[i] = StageOrder[i]
           /\ EarlierStagesSucceeded(stages'[i]) ]_vars

\* a whole run: every stage started, the analysis was extracted, exit status 0
C20_Witness ==
  /\ pl_pc = "exit" /\ exit_code = 0
  /\ stages = StageOrder
  /\ "analysis_metadata" \in analysis.keys

----------------------------------------------------------------------------
(* Interruption of the content fetch (Spec).                               *)

\* C21: when the process is interrupted during a content request after some
\* files were stored, _fetch_file_contents returns the map built so far, so
\* that its caller can go on with it, and main does not end the run with the
\* status of an interrupted run
C21_InterruptKeepsPartialMap ==
  (fc_last = "interrupt" /\ total_content_size > 0) =>
    /\ fc_pc = "returned"
    /\ DOMAIN file_contents # {}
    /\ exit_code # 1

----------------------------------------------------------------------------
(* _filter_files called on its own, once and then on its own result.       *)

\* filtered = self._filter_files(all_files)
FilterCall ==
  /\ flt_pc = "start"
  /\ flt_pc' = "once"
  /\ flt_out' = <<FilterFilesWith(flt_in.all_files, flt_in.config)>>
  /\ UNCHANGED <<config, aiVars, selVars, gh_op, ghVars, fcVars, stVars, faVars,
                 plVars, flt_in, hsVars, exVars, spVars, trVars, puVars>>

\* self._filter_files(filtered)
FilterAgain ==
  /\ flt_pc = "once"
  /\ flt_pc' = "twice"
  /\ flt_out' = Append(flt_out, FilterFilesWith(flt_out[1], flt_in.config))
  /\ UNCHANGED <<config, aiVars, selVars, gh_op, ghVars, fcVars, stVars, faVars,
                 plVars, flt_in, hsVars, exVars, spVars, trVars, puVars>>

InitFilter ==
  /\ config = DefaultConfig
  /\ AIIdle /\ SelIdle
  /\ gh_op = "none" /\ GhIdle /\ FcIdle
  /\ StIdle /\ FaIdle /\ PlOff /\ HsIdle /\ ExIdle /\ SpIdle /\ TrIdle /\ PuIdle
  /\ flt_pc = "start"
  /\ flt_in \in [all_files : SeqsUpTo(FilterPaths, MaxFilterList),
                  config : FilterConfigs]
  /\ flt_out = <<>>

NextFilter == FilterCall \/ FilterAgain

SpecFilter == InitFilter /\ [][NextFilter]_vars

\* C22: filtering the list _filter_files returned, under the same
\* configuration, returns that list again
C22_FilterIdempotent ==
  flt_pc = "twice" => flt_out[2] = flt_out[1]

\* a list from which the first call dropped one path and kept two has been
\* filtered twice
C22_Witness ==
  /\ flt_pc = "twice"
  /\ Len(flt_in.all_files) = 3
  /\ Len(flt_out[1]) = 2
  /\ Len(flt_out[2]) = 2

\* chars has a '/'-separated segment equal to one of dirs
HasSegmentIn(chars, dirs) ==
  \E d \in dirs : \E a \in 1..(Len(chars) + 1) :
    LET b == a + Len(d) - 1
    IN /\ b <= Len(chars)
       /\ SubSeq(chars, a, b) = d
       /\ \A k \in 1..Len(d) : d[k] # "/"
       /\ (a = 1 \/ chars[a - 1] = "/")
       /\ (b = Len(chars) \/ chars[b + 1] = "/")

\* chars ends with one of exts
HasEndingIn(chars, exts) ==
  \E e \in exts :
    /\ Len(e) <= Len(chars)
    /\ \A k \in 1..Len(e) : chars[Len(chars) - Len(e) + k] = e[k]

\* the exclusion policy: one decision made of three conditions
PolicyDrops(file_path, cfg) ==
  LET chars == Chars(file_path)
      ext == ToLower(PathSuffix(chars))
  IN \/ HasSegmentIn(chars, cfg.excluded_directories)
     \/ HasEndingIn(chars, cfg.excluded_file_extensions)
     \/ (ext # <<>> /\ ext \notin SUPPORTED_EXTENSIONS)

\* the policy for each configuration and path of the model, computed once
PolicyDropsOf ==
  [cfg \in FilterConfigs |-> [p \in FilterPaths |-> PolicyDrops(p, cfg)]]

\* the paths without extension that lie in no excluded directory and have no
\* excluded ending, computed once
PlainPathsOf ==
  [cfg \in FilterConfigs |->
     {p \in FilterPaths :
        /\ PathSuffix(Chars(p)) = <<>>
        /\ ~HasSegmentIn(Chars(p), cfg.excluded_directories)
        /\ ~HasEndingIn(Chars(p), cfg.excluded_file_extensions)}]

\* for each configuration: the loop body appends the same paths in whatever
\* order it makes its three tests, computed once
OrderIndependentOf ==
  [cfg \in FilterConfigs |->
     \A order \in FilterTestOrders : \A p \in FilterPaths :
       KeepsInOrderOf[cfg][order][p] = KeepsInOrderOf[cfg][FilterTestOrder][p]]

\* C23: the list _filter_files returns is the input without the paths the
\* policy drops (a segment equal to an excluded directory, an excluded
\* ending, an extension outside the supported set), in the order of the
\* input; a path without extension passes the third condition; and in
\* whatever order the loop body makes its three tests, it appends exactly
\* the paths of that list
C23_FilterIsPolicySubsequence ==
  flt_pc \in {"once", "twice"} =>
    LET files == flt_in.all_files
        cfg == flt_in.config
        out == flt_out[1]
        kept == {i \in 1..Len(files) : ~PolicyDropsOf[cfg][files[i]]}
        Nth(k) == CHOOSE i \in kept : Cardinality({j \in kept : j < i}) = k - 1
    IN /\ Len(out) = Cardinality(kept)
       /\ \A k \in 1..Len(out) : out[k] = files[Nth(k)]
       /\ \A i \in 1..Len(files) : files[i] \in PlainPathsOf[cfg] => i \in kept
       /\ OrderIndependentOf[cfg]

\* the example: node_modules excluded, the three other paths returned
C23_Witness ==
  /\ flt_pc = "once"
  /\ flt_in.all_files = <<"package.json", "src/index.js", "README.md", "node_modules/x.js">>
  /\ <<"n","o","d","e","_","m","o","d","u","l","e","s">> \in flt_in.config.excluded_directories
  /\ flt_out[1] = <<"package.json", "src/index.js", "README.md">>

----------------------------------------------------------------------------
(* _heuristic_file_selection called on its own, twice on the same list.    *)

\* one run of _heuristic_file_selection(all_files)
HeuristicRun ==
  [scored_files |-> ScoredFiles(hs_in.all_files),
   selected |-> HeuristicFileSelection(hs_in.all_files, hs_in.max_files_to_analyze)]

\* the first run
HeuristicCall ==
  /\ hs_pc = "start"
  /\ hs_pc' = "once"
  /\ hs_out' = <<HeuristicRun>>
  /\ UNCHANGED <<config, aiVars, selVars, gh_op, ghVars, fcVars, stVars, faVars,
                 plVars, fltVars, hs_in, exVars, spVars, trVars, puVars>>

\* a second run on the same list with the same pattern table
HeuristicAgain ==
  /\ hs_pc = "once"
  /\ hs_pc' = "twice"
  /\ hs_out' = Append(hs_out, HeuristicRun)
  /\ UNCHANGED <<config, aiVars, selVars, gh_op, ghVars, fcVars, stVars, faVars,
                 plVars, fltVars, hs_in, exVars, spVars, trVars, puVars>>

InitHeuristic ==
  /\ config = DefaultConfig
  /\ AIIdle /\ SelIdle
  /\ gh_op = "none" /\ GhIdle /\ FcIdle
  /\ StIdle /\ FaIdle /\ PlOff /\ FltIdle /\ ExIdle /\ SpIdle /\ TrIdle /\ PuIdle
  /\ hs_pc = "start"
  /\ hs_in \in [all_files : {l \in SeqsUpTo(HeuristicPaths, MaxPaths) : NoDup(l)},
                 max_files_to_analyze : 0..MaxFilesToAnalyze]
  /\ hs_out = <<>>

NextHeuristic == HeuristicCall \/ HeuristicAgain

SpecHeuristic == InitHeuristic /\ [][NextHeuristic]_vars

PatternOccurs(i, chars) ==
  LET pat == ToLower(PRIORITY_PATTERNS[i + 1])
      low == ToLower(chars)
  IN \E k \in 1..(Len(low) - Len(pat) + 1) :
       \A m \in 1..Len(pat) : low[k + m - 1] = pat[m]

\* the lower-cased file name: what follows the last '/'
LowerFileName(chars) ==
  LET start == CHOOSE k \in 1..(Len(chars) + 1) :
                 /\ \A m \in k..Len(chars) : chars[m] # "/"
                 /\ (k = 1 \/ chars[k - 1] = "/")
  IN ToLower(SubSeq(chars, start, Len(chars)))

\* the score as the sum of its four parts
ScoreByParts(file_path) ==
  LET chars == Chars(file_path)
      n == Len(PRIORITY_PATTERNS)
      matching == {i \in 0..(n - 1) : PatternOccurs(i, chars)}
      lowest == CHOOSE i \in matching : \A j \in 0..(i - 1) : j \notin matching
      name == LowerFileName(chars)
  IN (IF matching = {} THEN 0 ELSE (n - lowest) * 10)
     + (IF \A k \in 1..Len(chars) : chars[k] # "/" THEN 5 ELSE 0)
     + (IF Contains(name, S_config) \/ Contains(name, S_setup) THEN 3 ELSE 0)
     + (IF name \in DocFileNames THEN 2 ELSE 0)

\* computed once for the paths of the lists
ScoreByPartsOf == [p \in HeuristicPaths |-> ScoreByParts(p)]

\* C25: each entry of scored_files carries the score made of the four parts
\* (the first matching pattern only, the root bonus, the config/setup bonus,
\* the documentation-name bonus); a path of the input is in scored_files
\* exactly when that score is positive, and only such paths are returned
C25_ScoreIsSumOfParts ==
  hs_pc \in {"once", "twice"} =>
    LET files == hs_in.all_files
        sf == hs_out[1].scored_files
        out == hs_out[1].selected
    IN /\ \A k \in 1..Len(sf) :
            /\ sf[k].score = ScoreByPartsOf[sf[k].file_path]
            /\ sf[k].score > 0
       /\ \A i \in 1..Len(files) :
            (ScoreByPartsOf[files[i]] > 0) <=> (\E k \in 1..Len(sf) : sf[k].file_path = files[i])
       /\ \A k \in 1..Len(out) : ScoreByPartsOf[out[k]] > 0

\* a path matching two patterns scores for the first only, a path in a
\* directory has the pattern and the setup bonus, a path with no part is left out
C25_Witness ==
  /\ hs_pc = "once"
  /\ hs_in.all_files = <<"Makefile", "src/index.js", "docs/setup.py">>
  /\ hs_out[1].scored_files =
       << [file_path |-> "docs/setup.py", score |-> 263],
          [file_path |-> "Makefile", score |-> 25] >>

----------------------------------------------------------------------------
(* The JSON extraction of the selector, of the structure analyzer and of   *)
(* analyze_with_ai, each given one answer: prose, one JSON value, prose.   *)

\* the opening lexeme of the value each function looks for
OpenerOf(site) == IF site = "select" THEN "lb" ELSE "lc"

\* the JSON values of the answers: arrays of paths of the file list for the
\* selector, objects for the two others
ValuesOf(site) ==
  CASE site = "select" ->
         {ArrayText(<<STR("package.json")>>),
          ArrayText(<<STR("package.json"), STR("README.md")>>)}
    [] site = "structure" ->
         {ObjectText(<<>>), ObjectText(<<"directories">>),
          ObjectText(<<"directories", "languages">>)}
    [] site = "final" ->
         {ObjectText(<<>>), ObjectText(<<"commands">>),
          ObjectText(<<"repository_analysis", "commands">>)}

\* prose: words, and the bracket or brace characters a sentence may contain
ProseOf(site) ==
  SeqsUpTo(IF site = "select" THEN {WORD, LB, RB} ELSE {WORD, LC, RC}, MaxProse)

\* the spans text[i..j] that are a well-formed JSON array (opener "lb") or
\* object (opener "lc")
JsonSpans(text, opener) ==
  {sp \in (1..Len(text)) \X (1..Len(text)) :
     /\ sp[1] <= sp[2]
     /\ text[sp[1]].k = opener
     /\ JsonLoads(SubSeq(text, sp[1], sp[2])).ok}

\* the answer contains exactly one well-formed JSON value of the kind looked
\* for, the one between pre and post: every other well-formed span lies
\* inside it
ExactlyOneJson(a) ==
  LET text == a.pre \o a.json \o a.post
      embedded == <<Len(a.pre) + 1, Len(a.pre) + Len(a.json)>>
  IN \A sp \in JsonSpans(text, OpenerOf(a.site)) :
       embedded[1] <= sp[1] /\ sp[2] <= embedded[2]

ExtractInputs ==
  UNION {{a \in [site : {site}, pre : ProseOf(site), json : ValuesOf(site),
                  post : ProseOf(site)] : ExactlyOneJson(a)} :
           site \in {"select", "structure", "final"}}

\* the try block of the function on the answer as the text _call_ai_model
\* returned: SelectorTry with every named path in all_files and room for
\* all of them, StructureTry, AnalysisExtract
ExtractCall ==
  /\ ex_pc = "start"
  /\ ex_pc' = "done"
  /\ LET text == ex_in.pre \o ex_in.json \o ex_in.post
     IN ex_out' =
          CASE ex_in.site = "select" ->
                 SelectorTry(TRUE, text, <<"package.json", "src/index.js", "README.md">>,
                             MaxPaths)
            [] ex_in.site = "structure" -> StructureTry(TRUE, text)
            [] ex_in.site = "final" -> AnalysisExtract(text, EmptyDict)
  /\ UNCHANGED <<config, aiVars, selVars, gh_op, ghVars, fcVars, stVars, faVars,
                 plVars, fltVars, hsVars, ex_in, spVars, trVars, puVars>>

InitExtract ==
  /\ config = DefaultConfig
  /\ AIIdle /\ SelIdle
  /\ gh_op = "none" /\ GhIdle /\ FcIdle
  /\ StIdle /\ FaIdle /\ PlOff /\ FltIdle /\ HsIdle /\ SpIdle /\ TrIdle /\ PuIdle
  /\ ex_pc = "start"
  /\ ex_in \in ExtractInputs
  /\ ex_out = [branch |-> "none"]

NextExtract == ExtractCall

SpecExtract == InitExtract /\ [][NextExtract]_vars

\* the function went on with the value embedded in the answer
EmbeddedRecovered ==
  LET embedded == JsonLoads(ex_in.json)
  IN CASE ex_in.site = "select" ->
            /\ ex_out.branch = "ai"
            /\ Len(ex_out.files) = Len(embedded.items)
            /\ \A i \in 1..Len(embedded.items) : ex_out.files[i] = embedded.items[i].s
       [] ex_in.site = "structure" ->
            ex_out.branch = "ai" /\ ex_out.value.keys = embedded.keys
       [] ex_in.site = "final" ->
            /\ ex_out.exc = "none"
            /\ ex_out.dict.keys = embedded.keys \cup {"analysis_metadata"}

\* C26: for every answer that contains exactly one well-formed JSON array
\* (selector) or object (structure analyzer, analyze_with_ai) between prose,
\* the slice from the first opener to the last closer parses to the
\* embedded value
C26_ExtractionRoundTrips ==
  ex_pc = "done" => EmbeddedRecovered

----------------------------------------------------------------------------
(* The retry loops of the two clients side by side: one call of            *)
(* _fetch_repo_info or _fetch_complete_file_tree and one call of           *)
(* _call_ai_model, a step being one attempt of either (SpecRetry).         *)

InitRetry ==
  /\ config = DefaultConfig
  /\ ai_pc = "calling" /\ attempt = 0 /\ ai_log = <<>> /\ ai_sleeps = <<>>
  /\ ai_return = NoReturn /\ ai_error = NoError /\ ai_calls = NoCalls
  /\ SelIdle /\ FcIdle /\ StagesIdle
  /\ gh_op \in {"repo_info", "tree"}
  /\ gh_pc = "running" /\ gh_attempt = 0 /\ gh_log = <<>> /\ gh_sleeps = <<>>
  /\ gh_return = NoHostReturn /\ gh_error = NoHostError

NextRetry ==
  \/ FetchRepoInfoAttempt
  \/ FetchTreeAttempt
  \/ CallAIAttempt

SpecRetry == InitRetry /\ [][NextRetry]_vars

\* a request of the hosting API that failed and is not the rate-limit answer
HostRetryable(kind) == kind \in {"http_error", "timeout", "conn_error"}

\* the failed attempts after which a sleep is due: retryable ones before the
\* final attempt
HostSleepDue == {k \in 1..Len(gh_log) :
                   HostRetryable(gh_log[k]) /\ k < GITHUB_MAX_ATTEMPTS}
AuthErrorOf  == [m \in AIErrorTexts \cup {E_empty_response} |-> IsAuthError(m)]
AISleepDue   == {k \in 1..Len(ai_log) :
                   /\ AttemptFailed(k) /\ ~AuthErrorOf[ai_log[k].msg]
                   /\ k < AI_MAX_RETRIES}

\* C27: the sleeps of the hosting-API client are 2^(k-1) seconds after failed
\* attempt k, those of the AI client AI_RETRY_DELAY * 2^(k-1) seconds, one per
\* retryable failed attempt k = 1, 2 and none after the third failed attempt
\* or after a rate-limit answer or an authentication failure.
C27_BackoffDoubles ==
  /\ gh_sleeps = [k \in 1..Cardinality(HostSleepDue) |-> 2 ^ (k - 1)]
  /\ ai_sleeps = [k \in 1..Cardinality(AISleepDue) |-> AI_RETRY_DELAY * 2 ^ (k - 1)]
  /\ HostSleepDue = 1..Cardinality(HostSleepDue)
  /\ AISleepDue = 1..Cardinality(AISleepDue)

\* both clients failed three times, slept 1 s and 2 s resp. 2 s and 4 s, and
\* ended without a third sleep
C27_Witness ==
  /\ Len(gh_log) = GITHUB_MAX_ATTEMPTS /\ Len(ai_log) = AI_MAX_RETRIES
  /\ \A k \in 1..3 : HostRetryable(gh_log[k]) /\ ai_log[k].msg = E_timeout
  /\ gh_pc \in {"returned", "raised"} /\ ai_pc = "raised"
  /\ gh_sleeps = <<1, 2>> /\ ai_sleeps = <<2, 4>>

\* a first attempt that meets the rate limit resp. an authentication failure
\* ends the call without a sleep
C27_WitnessNoSleep ==
  /\ gh_log = <<"rate_limit">> /\ gh_pc = "raised" /\ gh_sleeps = <<>>
  /\ Len(ai_log) = 1 /\ ai_log[1].msg = E_unauthorized /\ ai_pc = "raised"
  /\ ai_sleeps = <<>>

----------------------------------------------------------------------------
(* _fetch_repo_info after its last attempt (SpecGitHub).                   *)

\* every request of the call failed and no attempt is left
RepoInfoExhausted ==
  /\ gh_op = "repo_info"
  /\ Len(gh_log) = GITHUB_MAX_ATTEMPTS
  /\ \A k \in 1..Len(gh_log) : gh_log[k] # "ok"

\* C28: when the request of _fetch_repo_info still fails after all retry
\* attempts (timeouts, other request failures, or any mix), the function
\* raises GitHubAPIError and does not return a value.
C28_RepoInfoRaisesWhenExhausted ==
  RepoInfoExhausted =>
    /\ gh_pc = "raised"
    /\ gh_error.kind \in {"failed_to_fetch", "rate_limit_exceeded"}
    /\ gh_return = NoHostReturn

----------------------------------------------------------------------------
(* The control flow of one selection task (SpecSelect).                    *)

\* the AI attempt ended with a non-empty validated subset of the file list
AIValidated ==
  /\ AnswerHasBrackets /\ AnswerParsed.ok
  /\ KeptEntries(AnswerParsed.items, all_files) # <<>>

\* the AI attempt ended in an error or in an invalid or empty result
AIEndedBadly ==
  \/ ai_pc = "raised"
  \/ ai_pc = "returned" /\ ~AIValidated

\* the steps of the task: Attempt(AI), then Success or the heuristic
SelectorTransitions == {<<"start", "ai">>, <<"ai", "returned">>}

\* C29: a selection task goes Attempt(AI) -> Success(validated) or
\* Attempt(AI) -> Invalid/Error -> Attempt(Heuristic) -> Success: the heuristic
\* ranker is invoked at most once, only in the step that follows an AI attempt
\* ended in error or in an invalid/empty result, never after a non-empty
\* validated subset, and exactly one of the two branches produces the list
\* returned.
C29_SelectorStateMachine ==
  /\ [](/\ heuristic_calls \in {0, 1}
        /\ sel_pc # "returned" => heuristic_calls = 0 /\ sel_branch = "none"
        /\ sel_pc = "returned" =>
             /\ sel_branch \in {"ai", "heuristic"}
             /\ (sel_branch = "heuristic") = (heuristic_calls = 1)
             /\ (sel_branch = "heuristic") = AIEndedBadly
             /\ (sel_branch = "ai") = AIValidated)
  /\ [][/\ sel_pc' # sel_pc => <<sel_pc, sel_pc'>> \in SelectorTransitions
        /\ heuristic_calls' # heuristic_calls =>
             /\ sel_pc = "ai" /\ AIEndedBadly
             /\ sel_pc' = "returned" /\ heuristic_calls' = 1
             /\ sel_result' =
                  HeuristicFileSelection(all_files, config.max_files_to_analyze)
        /\ (sel_pc = "returned" /\ sel_pc' = "returned") =>
             UNCHANGED <<sel_branch, sel_result, heuristic_calls>>]_vars

\* the AI answered with an array of which no entry is in the file list, and
\* the one call of the heuristic produced the list returned
C29_Witness ==
  /\ sel_pc = "returned" /\ sel_branch = "heuristic" /\ heuristic_calls = 1
  /\ ai_pc = "returned" /\ AnswerHasBrackets /\ AnswerParsed.ok
  /\ AnswerParsed.items # <<>>
  /\ KeptEntries(AnswerParsed.items, all_files) = <<>>
  /\ sel_result # <<>>

----------------------------------------------------------------------------
(* The order of the content requests (SpecGitHub).                         *)

\* the paths requested so far are the first ones of the input list, in order
RequestedIsPrefix ==
  /\ Len(requested) <= Len(file_paths)
  /\ \A i \in 1..Len(requested) : requested[i] = file_paths[i]

\* C30: _fetch_file_contents requests the paths one at a time in input order
\* with the budget test before each request: the requests issued are always a
\* prefix of the input list, each request is for the next path and is issued
\* with the total below the budget, and once the loop has stopped (budget
\* reached, rate limit seen, or list exhausted) nothing more is requested.
C30_RequestsInOrderUntilStop ==
  /\ [](gh_op = "contents" => RequestedIsPrefix)
  /\ [][requested' # requested =>
          /\ fc_pc = "loop" /\ fc_stop = "none"
          /\ total_content_size < max_total_size
          /\ Len(requested) < Len(file_paths)
          /\ requested' = Append(requested, file_paths[Len(requested) + 1])]_vars
  /\ [][fc_stop # "none" => UNCHANGED <<requested, fc_stop, fc_pc>>]_vars

\* the budget was reached after two of three files: the third is never asked for
C30_Witness ==
  /\ gh_op = "contents" /\ fc_pc = "returned" /\ fc_stop = "budget"
  /\ Len(file_paths) = 3 /\ NoDup(file_paths)
  /\ requested = <<file_paths[1], file_paths[2]>>

\* a rate-limit answer to the first request ends the loop with one request made
C30_WitnessRateLimit ==
  /\ gh_op = "contents" /\ fc_pc = "returned" /\ fc_stop = "rate_limit"
  /\ Len(file_paths) = 3 /\ requested = <<file_paths[1]>>

----------------------------------------------------------------------------
(* A rate-limit answer to a content request in a run of the pipeline       *)
(* (Spec).                                                                 *)

\* _fetch_file_contents has left its loop on a rate-limit answer
StoppedByRateLimit == pl_pc = "contents" /\ fc_stop = "rate_limit"

\* C31: a rate-limit answer to the request for the k-th selected file ends
\* the loop without a raise: no later file is requested, the entries stored
\* for the files before k are left as they are, and the partial map is
\* returned to get_full_repository_context, which goes on to the structure
\* analysis with it.
C31_RateLimitKeepsPartialMap ==
  /\ [](StoppedByRateLimit =>
          /\ fc_pc = "returned" /\ fc_last = "rate_limit"
          /\ Len(requested) = fc_i + 1
          /\ \A i \in 1..Len(requested) : requested[i] = file_paths[i]
          /\ DOMAIN file_contents \subseteq {file_paths[i] : i \in 1..fc_i})
  /\ [][(requested' # requested /\ fc_last' = "rate_limit") =>
          /\ fc_pc' = "returned" /\ fc_stop' = "rate_limit"
          /\ UNCHANGED <<file_contents, total_content_size>>]_vars
  /\ [][StoppedByRateLimit =>
          /\ pl_pc' = "structure" /\ st_pc' = "start"
          /\ stages' = Append(stages, "analyze_structure")
          /\ UNCHANGED <<file_contents, context, exit_code>>]_vars

\* the second of three selected files met the rate limit: the first is
\* stored, the third was never requested
C31_Witness ==
  /\ StoppedByRateLimit /\ fc_pc = "returned"
  /\ Len(file_paths) = 3
  /\ requested = <<file_paths[1], file_paths[2]>>
  /\ DOMAIN file_contents = {file_paths[1]}

----------------------------------------------------------------------------
(* The selector on file lists around MAX_FILES_IN_PROMPT entries: the      *)
(* sample of the prompt and the validation of the answer (SpecPrompt).     *)

\* the i-th path of a long file list
NumberedPath(i) == "src/f" \o ToString(i) \o ".js"

LongList(n) == [i \in 1..n |-> NumberedPath(i)]

\* lengths of the filtered list: short ones and those around the limit
PromptLens ==
  (0..2) \cup ((MAX_FILES_IN_PROMPT - 1)..(MAX_FILES_IN_PROMPT + MaxBeyondPrompt))

\* the paths the AI names: the first, the last shown, and those after it
NamedPaths ==
  {NumberedPath(i) :
     i \in {1} \cup (MAX_FILES_IN_PROMPT..(MAX_FILES_IN_PROMPT + MaxBeyondPrompt + 1))}

PromptAnswers == {ArrayText(v) : v \in SeqsUpTo({STR(p) : p \in NamedPaths}, 2)}

PromptInputs ==
  [all_files : {LongList(n) : n \in PromptLens},
   answer : PromptAnswers,
   max_files_to_analyze : 1..2]

\* _ai_select_files_to_analyze up to the end of its try block, with the
\* answer of the AI as the text _call_ai_model returned
PromptSelect ==
  /\ sp_pc = "start"
  /\ sp_pc' = "done"
  /\ LET try == SelectorTry(TRUE, sp_in.answer, sp_in.all_files,
                            sp_in.max_files_to_analyze)
     IN sp_out' = [files_sample |-> PromptFiles(sp_in.all_files),
                   branch |-> try.branch, files |-> try.files]
  /\ UNCHANGED <<config, aiVars, selVars, gh_op, ghVars, fcVars, stVars, faVars,
                 plVars, fltVars, hsVars, exVars, sp_in, trVars, puVars>>

InitPrompt ==
  /\ config = DefaultConfig
  /\ AIIdle /\ SelIdle
  /\ gh_op = "none" /\ GhIdle /\ FcIdle
  /\ StIdle /\ FaIdle /\ PlOff /\ FltIdle /\ HsIdle /\ ExIdle /\ TrIdle /\ PuIdle
  /\ sp_pc = "start"
  /\ sp_in \in PromptInputs
  /\ sp_out = NoPromptOutput

NextPrompt == PromptSelect

SpecPrompt == InitPrompt /\ [][NextPrompt]_vars

\* C32: the prompt shows the first min(n, MAX_FILES_IN_PROMPT) paths of the
\* filtered list in their order, and the answer is validated against the
\* whole list: the named paths that are anywhere in the list are kept, in
\* particular a path after the first MAX_FILES_IN_PROMPT entries is accepted
\* into the selection.
C32_PromptSampleValidationWhole ==
  sp_pc = "done" =>
    LET n == Len(sp_in.all_files)
        shown == IF n < MAX_FILES_IN_PROMPT THEN n ELSE MAX_FILES_IN_PROMPT
        kept == KeptEntries(JsonLoads(sp_in.answer).items, sp_in.all_files)
    IN /\ Len(sp_out.files_sample) = shown
       /\ \A i \in 1..shown : sp_out.files_sample[i] = sp_in.all_files[i]
       /\ kept # <<>> =>
            /\ sp_out.branch = "ai"
            /\ sp_out.files = Take(kept, sp_in.max_files_to_analyze)
       /\ \A j \in (MAX_FILES_IN_PROMPT + 1)..n :
            sp_in.answer = ArrayText(<<STR(sp_in.all_files[j])>>) =>
              sp_out.files = <<sp_in.all_files[j]>>

\* the list has one path more than the prompt shows, and the AI names it
C32_Witness ==
  /\ sp_pc = "done"
  /\ Len(sp_in.all_files) = MAX_FILES_IN_PROMPT + 1
  /\ Len(sp_out.files_sample) = MAX_FILES_IN_PROMPT
  /\ sp_in.answer = ArrayText(<<STR(NumberedPath(MAX_FILES_IN_PROMPT + 1))>>)
  /\ ~InList(NumberedPath(MAX_FILES_IN_PROMPT + 1), sp_out.files_sample)
  /\ sp_out.branch = "ai"
  /\ sp_out.files = <<NumberedPath(MAX_FILES_IN_PROMPT + 1)>>

----------------------------------------------------------------------------
(* Two runs of the structure analysis on the same filtered list with the   *)
(* same answers of the AI, after different selections and content fetches  *)
(* (SpecTwoRuns). The locals of get_full_repository_context at the call:   *)
(* all_files is filtered_files, sel_result is important_files.             *)

\* filtered lists of the two runs
TwoRunLists ==
  {<<"package.json", "README.md">>, <<"src/index.js", "package.json">>,
   <<"README.md">>}

\* what selection and content fetch can have left behind for a filtered
\* list: the branch taken, important_files, file_contents
SelectionsOf(files) ==
  {x \in [sel_branch : {"ai", "heuristic"},
          important_files : {<<>>, <<files[1]>>, <<files[Len(files)]>>},
          file_contents : {<<>>} \cup
            {Put(<<>>, f, StoredText(60, DEFAULT_MAX_FILE_SIZE)) :
               f \in {files[1], files[Len(files)]}}] :
     DOMAIN x.file_contents \subseteq {x.important_files[i] :
                                         i \in 1..Len(x.important_files)}}

\* the first run is over: the second starts on the same filtered list after
\* another selection and content fetch
SecondRun ==
  /\ tr_run = 1
  /\ st_pc = "returned"
  /\ tr_run' = 2
  /\ tr_first' = [log |-> ai_log, sel_branch |-> sel_branch,
                  important_files |-> sel_result, file_contents |-> file_contents,
                  st_branch |-> st_branch, structure |-> structure]
  /\ \E x \in SelectionsOf(all_files) :
       /\ sel_branch' = x.sel_branch
       /\ sel_result' = x.important_files
       /\ file_contents' = x.file_contents
  /\ st_pc' = "start" /\ st_branch' = "none" /\ structure' = NoStructure
  /\ AIReset
  /\ UNCHANGED <<config, sel_pc, all_files, heuristic_calls, gh_op, ghVars,
                 fc_pc, file_paths, fc_i, total_content_size, max_total_size,
                 requested, fc_last, fc_len, fc_stop, faVars, plVars,
                 fltVars, hsVars, exVars, spVars, puVars>>

InitTwoRuns ==
  /\ config = DefaultConfig
  /\ AIIdle
  /\ sel_pc = "returned" /\ heuristic_calls = 0
  /\ all_files \in TwoRunLists
  /\ \E x \in SelectionsOf(all_files) :
       /\ sel_branch = x.sel_branch
       /\ sel_result = x.important_files
       /\ file_contents = x.file_contents
  /\ gh_op = "none" /\ GhIdle
  /\ fc_pc = "idle" /\ file_paths = <<>> /\ fc_i = 0
  /\ total_content_size = 0 /\ max_total_size = MAX_TOTAL_CONTENT_SIZE
  /\ requested = <<>> /\ fc_last = "none" /\ fc_len = 0 /\ fc_stop = "none"
  /\ st_pc = "start" /\ st_branch = "none" /\ structure = NoStructure
  /\ FaIdle /\ PlOff /\ FltIdle /\ HsIdle /\ ExIdle /\ SpIdle /\ PuIdle
  /\ tr_run = 1 /\ tr_first = NoFirstRun

NextTwoRuns ==
  \/ StructureCallAI
  \/ CallAIAttempt
  \/ StructureFinish
  \/ SecondRun

SpecTwoRuns == InitTwoRuns /\ [][NextTwoRuns]_vars

\* C33: for a fixed filtered list and fixed answers of the AI to the
\* structure prompt, the structure analysis of the second run equals that of
\* the first, whichever branch the selection took and whatever the content
\* fetch returned in either run.
C33_StructureIndependentOfSelection ==
  (tr_run = 2 /\ st_pc = "returned") =>
    /\ structure = tr_first.structure
    /\ st_branch = tr_first.st_branch

\* two runs that differ in selection branch, selected files and contents and
\* both end in the heuristic analysis, which reads the file list
C33_Witness ==
  /\ tr_run = 2 /\ st_pc = "returned"
  /\ sel_branch # tr_first.sel_branch
  /\ sel_result # tr_first.important_files
  /\ file_contents # tr_first.file_contents
  /\ st_branch = "heuristic" /\ structure.has_documentation
  /\ ~(\E i \in 1..Len(sel_result) : DocPathOf[sel_result[i]])

----------------------------------------------------------------------------
(* _parse_github_url called on its own (SpecParse).                        *)

Digits == <<"0","1","2","3","4","5","6","7","8","9">>
Whitespace == {" ", "\n", "\t"}

\* str.strip()
RECURSIVE LStrip(_)
LStrip(s) == IF s # <<>> /\ Head(s) \in Whitespace THEN LStrip(Tail(s)) ELSE s
RECURSIVE RStripChars(_, _)
RStripChars(s, set) ==
  IF s # <<>> /\ s[Len(s)] \in set THEN RStripChars(SubSeq(s, 1, Len(s) - 1), set)
  ELSE s
Strip(s) == RStripChars(LStrip(s), Whitespace)

\* s.replace(old, ''): every occurrence of old, left to right, is removed
RECURSIVE Remove(_, _)
Remove(s, old) ==
  IF Len(s) < Len(old) THEN s
  ELSE IF SubSeq(s, 1, Len(old)) = old
    THEN Remove(SubSeq(s, Len(old) + 1, Len(s)), old)
  ELSE <<Head(s)>> \o Remove(Tail(s), old)

\* a character of the class [a-zA-Z0-9._-]
NameChar(c) ==
  \/ \E i \in 1..26 : c = UpperChars[i] \/ c = LowerChars[i]
  \/ \E i \in 1..10 : c = Digits[i]
  \/ c \in {".", "_", "-"}

\* re.match(r'^[a-zA-Z0-9._-]+$', x): `$` matches at the end and before a
\* newline that ends the string
NameMatch(x) ==
  LET core == IF x # <<>> /\ x[Len(x)] = "\n" THEN SubSeq(x, 1, Len(x) - 1) ELSE x
  IN core # <<>> /\ \A i \in 1..Len(core) : NameChar(core[i])

\* _parse_github_url: ok is FALSE when it raises ValueError
ParseGithubUrl(raw_url) ==
  LET url1 == Strip(raw_url)
      url2 == Remove(url1, Chars("https://github.com/"))
      url3 == Remove(url2, Chars("http://github.com/"))
      url4 == Remove(url3, Chars("git@github.com:"))
      url5 == Remove(url4, Chars(".git"))
      url  == RStripChars(url5, {"/"})
      parts == Split(url)
  IN IF Len(parts) # 2 THEN NoParse
     ELSE IF parts[1] = <<>> \/ parts[2] = <<>> THEN NoParse
     ELSE IF ~NameMatch(parts[1]) THEN NoParse
     ELSE IF ~NameMatch(parts[2]) THEN NoParse
     ELSE [ok |-> TRUE, owner |-> parts[1], repo |-> parts[2]]

\* owners and repository names that match ^[A-Za-z0-9._-]+$
OwnerNames == {"o", "octo-cat", "my.github"}
RepoNames == {"r", "Hello_World.2", "user.github.io"}

\* URLs of a repository: the https form with its optional endings, and the
\* other forms the parser accepts
UrlInputs ==
  {[form |-> IF prefix = "https://github.com/" THEN "https" ELSE "other",
    repo_url |-> Chars(prefix) \o Chars(owner) \o <<"/">> \o Chars(name)
                 \o Chars(ending),
    owner |-> Chars(owner), name |-> Chars(name)] :
     prefix \in {"https://github.com/", "http://github.com/", "git@github.com:", ""},
     owner \in OwnerNames, name \in RepoNames, ending \in {"", ".git", "/"}}

\* inputs that are not two non-empty segments of name characters
MalformedUrls ==
  {<<>>, Chars("https://github.com/"), Chars("https://github.com/") \o Chars("o"),
   Chars("https://github.com/") \o <<"/">> \o Chars("r"),
   Chars("https://github.com/") \o Chars("o") \o <<"/">> \o Chars("r")
     \o <<"/">> \o Chars("r"),
   Chars("https://github.com/") \o Chars("o") \o <<"/", "a", " ", "b">>,
   Chars("https://github.com/") \o Chars("o") \o <<"/", "a", "?", "b">>,
   Chars("o"), <<"/">>, <<" ", "/", " ">>}

ParseInputs ==
  UrlInputs \cup
  {[form |-> "malformed", repo_url |-> u, owner |-> <<>>, name |-> <<>>] :
     u \in MalformedUrls}

ParseCall ==
  /\ pu_pc = "start"
  /\ pu_pc' = "done"
  /\ pu_out' = ParseGithubUrl(pu_in.repo_url)
  /\ UNCHANGED <<config, aiVars, selVars, gh_op, ghVars, fcVars, stVars, faVars,
                 plVars, fltVars, hsVars, exVars, spVars, trVars, pu_in>>

InitParse ==
  /\ config = DefaultConfig
  /\ AIIdle /\ SelIdle
  /\ gh_op = "none" /\ GhIdle /\ FcIdle
  /\ StIdle /\ FaIdle /\ PlOff /\ FltIdle /\ HsIdle /\ ExIdle /\ SpIdle /\ TrIdle
  /\ pu_pc = "start"
  /\ pu_in \in ParseInputs
  /\ pu_out = NoParse

NextParse == ParseCall

SpecParse == InitParse /\ [][NextParse]_vars

\* C34: https://github.com/<owner>/<name>, with or without a trailing '.git'
\* or '/', parses to exactly (owner, name) for every owner and name that
\* match ^[A-Za-z0-9._-]+$, and an input that is not two non-empty segments
\* of such characters is rejected.
C34_ParseReturnsOwnerAndName ==
  pu_pc = "done" =>
    /\ pu_in.form = "https" =>
         pu_out = [ok |-> TRUE, owner |-> pu_in.owner, repo |-> pu_in.name]
    /\ pu_in.form = "malformed" => ~pu_out.ok

----------------------------------------------------------------------------
(* The input checks of analyze_with_ai (SpecAnalyze).                      *)

\* _call_ai_model was not called and is not under way
NoAICall == ai_pc = "idle" /\ ai_log = <<>> /\ stages = <<>>

\* C35: called with a dict that has an 'error' key, analyze_with_ai returns
\* that dict as it is and does not call the AI; called with a dict that lacks
\* one of owner, repo, metadata, file_contents, structure, it returns an
\* error dict and does not call the AI.
C35_InputChecksBeforeAI ==
  /\ "error" \in repo_data.keys =>
       /\ NoAICall
       /\ fa_pc \in {"start", "returned"}
       /\ fa_pc = "returned" => analysis = repo_data
  /\ ("error" \notin repo_data.keys /\
      \E k \in {"owner", "repo", "metadata", "file_contents", "structure"} :
        k \notin repo_data.keys) =>
       /\ NoAICall
       /\ fa_pc \in {"start", "returned"}
       /\ fa_pc = "returned" =>
            /\ "error" \in analysis.keys
            /\ analysis.error.kind = "missing_keys"

\* the context lacks only 'structure': the error dict came back, no AI call
C35_Witness ==
  /\ fa_pc = "returned"
  /\ repo_data.keys = ContextKeys \ {"structure"}
  /\ analysis.keys = {"error"}
  /\ NoAICall

\* an error result that has the five keys as well comes back as it is
C35_WitnessError ==
  /\ fa_pc = "returned"
  /\ "error" \in repo_data.keys /\ RequiredKeys \subseteq repo_data.keys
  /\ analysis = repo_data /\ NoAICall

----------------------------------------------------------------------------
(* The calls of the AI endpoint in one run of the pipeline (Spec).         *)

\* the stages that call _call_ai_model: lines 892, 1194 and 1412
AIStageNames == {"select", "analyze_structure", "comprehensive_prompt"}

\* how many of them the run has entered
AIStagesStarted == Cardinality({i \in DOMAIN stages : stages[i] \in AIStageNames})

\* every call of the provider so far was answered by rejecting the credentials
AlwaysRejected == ai_calls.rejected = ai_calls.made

\* C36: one run of the pipeline calls the AI endpoint at most 9 times (three
\* AI stages with at most three attempts each), whatever the provider
\* answers; when the provider rejects the credentials every time, each AI
\* stage makes exactly one call, three in a run that reaches the last stage.
C36_AICallsBounded ==
  /\ Len(ai_log) <= AI_MAX_RETRIES
  /\ ai_calls.made <= AIStagesStarted * AI_MAX_RETRIES
  /\ ai_calls.made <= 9
  /\ AlwaysRejected =>
       /\ Len(ai_log) <= 1
       /\ ai_calls.made <= AIStagesStarted
       /\ (ai_pc \in {"idle", "raised"} /\ sel_pc # "start" /\ st_pc # "start") =>
            ai_calls.made = AIStagesStarted
       /\ (pl_pc = "exit" /\ fa_pc = "returned") => ai_calls.made = 3

\* every call of the run failed and was retried: nine calls
C36_Witness ==
  /\ pl_pc = "exit" /\ ai_calls.made = 9 /\ ai_calls.rejected = 0

\* the credentials were rejected throughout: three calls, one for each stage
C36_WitnessRejected ==
  /\ pl_pc = "exit" /\ fa_pc = "returned"
  /\ ai_calls = [made |-> 3, rejected |-> 3]

----------------------------------------------------------------------------
(* Termination of a run of the pipeline (LiveSpec): the program is         *)
(* sequential, and every request it issues is answered, fails or times     *)
(* out, so the step that is due is eventually taken.                       *)

\* a step of the run is due: the guards of the actions of Next, that is
\* ENABLED <<Next>>_vars written as a state predicate
StepDue ==
  \/ pl_pc \in {"start", "context"}
  \/ gh_op \in {"repo_info", "tree"} /\ gh_pc = "running"
       /\ gh_attempt < GITHUB_MAX_ATTEMPTS
  \/ pl_pc \in {"metadata", "tree"} /\ gh_pc \in {"returned", "raised"}
  \/ ai_pc = "idle" /\ (sel_pc = "start" \/ st_pc = "start" \/ fa_pc = "start")
  \/ ai_pc = "calling" /\ attempt < AI_MAX_RETRIES
  \/ ai_pc \in {"returned", "raised"} /\ (sel_pc = "ai" \/ st_pc = "ai" \/ fa_pc = "ai")
  \/ pl_pc = "select" /\ sel_pc \in {"returned", "raised"}
  \/ fc_pc = "loop"
  \/ pl_pc = "contents" /\ fc_pc \in {"returned", "raised"}
  \/ pl_pc = "structure" /\ st_pc \in {"returned", "raised"}
  \/ pl_pc = "final" /\ fa_pc \in {"returned", "raised"}

\* the control state of a run: where main and each operation stand, and the
\* counters of the loops; every step of Next changes it
control ==
  <<pl_pc, gh_pc, gh_attempt, ai_pc, attempt, sel_pc, fc_pc, fc_i, st_pc, fa_pc>>

\* the step that is due is taken: the control state moves on
Advance ==
  /\ StepDue
  /\ pl_pc' \in {"metadata", "tree", "select", "contents", "structure",
                 "context", "final", "exit"}
  /\ gh_pc' \in {"idle", "running", "returned", "raised"}
  /\ gh_attempt' \in 0..GITHUB_MAX_ATTEMPTS
  /\ ai_pc' \in {"idle", "calling", "returned", "raised"}
  /\ attempt' \in 0..AI_MAX_RETRIES
  /\ sel_pc' \in {"idle", "start", "ai", "returned", "raised"}
  /\ fc_pc' \in {"idle", "loop", "returned", "raised"}
  /\ fc_i' \in 0..Len(file_paths)
  /\ st_pc' \in {"idle", "start", "ai", "returned", "raised"}
  /\ fa_pc' \in {"idle", "start", "ai", "returned", "raised"}

\* the program is sequential and every request it issues is answered, fails
\* or times out: a run does not stay for ever at a point where a step is
\* due. Weak fairness of Next, stated on the control state: a due step is a
\* step of Next, and it moves the control state
LiveSpec == Spec /\ WF_control(Advance)

\* what get_full_repository_context returned: the compiled context or the
\* error dict of its except clause
ContextReturned ==
  /\ pl_pc = "context"
  /\ \/ context.keys = ContextKeys
     \/ "error" \in context.keys

\* what analyze_with_ai returned: the analysis with its metadata or one of
\* its error dicts
AnalysisReturned ==
  /\ fa_pc = "returned"
  /\ \/ "analysis_metadata" \in analysis.keys
     \/ "error" \in analysis.keys

\* C37: with every network call answered or timed out, every run of the
\* pipeline terminates: get_full_repository_context returns a complete
\* context or an error dict (unless the user interrupts the run, which ends
\* it at once), analyze_with_ai, once called, returns an analysis or an
\* error dict, and main exits, whatever the hosting API and the provider
\* answer.
C37_PipelineTerminates ==
  /\ [](pl_pc # "exit" => StepDue)
  /\ [][control' # control]_vars
  /\ <>(ContextReturned \/ fc_last = "interrupt")
  /\ (pl_pc = "final") ~> AnalysisReturned
  /\ <>(pl_pc = "exit" /\ exit_code \in 0..4)

\* a run that went through every retry of every stage and ended with the
\* error dict of analyze_with_ai
C37_Witness ==
  /\ pl_pc = "exit" /\ exit_code = 3
  /\ fa_pc = "returned" /\ "error" \in analysis.keys
  /\ ai_calls.made = 9

----------------------------------------------------------------------------
(* A file tree without files (Spec).                                       *)

\* the tree request was answered with status 200 and the tree holds no blob
EmptyTreeAnswered ==
  /\ gh_op = "tree" /\ gh_pc = "returned"
  /\ gh_log # <<>> /\ gh_log[Len(gh_log)] = "ok"
  /\ gh_return.files = <<>>

\* the tree request was answered with at least one blob
TreeAnswered ==
  /\ gh_op = "tree" /\ gh_pc = "returned"
  /\ gh_return.files # <<>>

\* C38: a successful tree response without any file ends the pipeline like a
\* failed tree fetch: the result is the error dict tagged GitHubAPIError, and
\* no filtering, selection, content request or AI call is made; a tree with
\* files goes on to the selection even when the filter leaves none of them
C38_EmptyTreeIsFailure ==
  /\ [](EmptyTreeAnswered =>
          /\ pl_pc \in {"tree", "context", "exit"}
          /\ stages = <<"metadata", "tree">>
          /\ ai_calls.made = 0 /\ requested = <<>>
          /\ pl_pc # "tree" =>
               /\ context = ContextError("GitHubAPIError", E_no_file_tree)
               /\ pl_pc = "exit" => exit_code = 3)
  /\ [][(pl_pc = "tree" /\ EmptyTreeAnswered) =>
          /\ pl_pc' = "context"
          /\ context' = ContextError("GitHubAPIError", E_no_file_tree)
          /\ UNCHANGED <<stages, ai_calls, requested>>]_vars
  /\ [][(pl_pc = "tree" /\ TreeAnswered) =>
          /\ pl_pc' = "select" /\ sel_pc' = "start"
          /\ all_files' = FilterFiles(gh_return.files)
          /\ stages' = <<"metadata", "tree", "filter", "select">>
          /\ UNCHANGED context]_vars

\* the run ended on the error dict of the empty tree
C38_Witness ==
  /\ EmptyTreeAnswered
  /\ pl_pc = "exit" /\ exit_code = 3
  /\ context.error_type = "GitHubAPIError"

\* a tree whose files were all filtered out: the run went through every stage
C38_WitnessAllFiltered ==
  /\ pl_pc = "exit"
  /\ context.keys = ContextKeys /\ context.total_files = 0
  /\ stages = StageOrder

----------------------------------------------------------------------------
(* The running size counter of _fetch_file_contents (SpecGitHub).          *)

\* C39: at every point of _fetch_file_contents, for any sequence of paths,
\* repeated paths included, the counter total_content_size that the budget
\* test reads equals the sum of the lengths of the texts now in the map
C39_CounterEqualsStored ==
  gh_op = "contents" => total_content_size = TotalStored(file_contents)

----------------------------------------------------------------------------
(* Root-level paths in the heuristic fallback (SpecHeuristic).             *)

\* file_path.count('/') == 0
RootLevel(file_path) == \A k \in 1..Len(Chars(file_path)) : Chars(file_path)[k] # "/"

\* computed once for the paths of the lists
RootLevelOf == [p \in HeuristicPaths |-> RootLevel(p)]

C40_WitnessEmpty ==
  /\ hs_pc = "once"
  /\ hs_in.all_files = <<"src/index.js">>
  /\ hs_in.max_files_to_analyze = 2
  /\ hs_out[1].selected = <<>>

====
